---- MODULE Spec2Model ----
(***************************************************************************)
(* Bookmark catalog: the persistence and normalization layer of            *)
(* bookmark_manager (service.py, repository.py, database.py, models.py,    *)
(* html_parser.py).                                                        *)
(*                                                                         *)
(* Strings are sequences of one-character strings, so that strip, lower,   *)
(* slicing and URL parsing are computed character by character.            *)
(* The store is the three tables bookmarks, tags and bookmark_tags.  Each  *)
(* `with self._db.connection()` block of repository.py is one transaction: *)
(* it either commits or, on a storage fault, rolls back and raises         *)
(* DatabaseError.  A handler is evaluated as the sequence of its           *)
(* connections; `fuel` is the number of connections that succeed before    *)
(* the storage fails.                                                      *)
(***************************************************************************)
EXTENDS Integers, Sequences, FiniteSets, TLC

(***************************************************************************)
(* Bounds of the model                                                     *)
(***************************************************************************)
\* highest bookmark id the store hands out (number of successful inserts)
MaxId == 2
\* highest value of the wall clock, in seconds
MaxClock == 1
\* highest number of connections that succeed before an injected fault
MaxFuel == 4
\* highest number of entries of an import file
MaxEntries == 2
\* highest tag id the store hands out
MaxTagId == 3
MaxUrlLen == 3
MaxTagListLen == 2

(***************************************************************************)
(* config.py                                                               *)
(***************************************************************************)
DEFAULT_LIST_LIMIT == 50
MAX_LIST_LIMIT == 1000
MAX_TAG_LENGTH == 64
MAX_TAGS_PER_BOOKMARK == 20
MAX_TITLE_LENGTH == 500
MAX_DESCRIPTION_LENGTH == 2000
DEFAULT_SCHEME == <<"h", "t", "t", "p", "s">>
ACCEPTED_SCHEMES ==
    { <<"h", "t", "t", "p">>, <<"h", "t", "t", "p", "s">>,
      <<"f", "t", "p">>, <<"f", "t", "p", "s">> }

(***************************************************************************)
(* Python str primitives on character sequences                            *)
(***************************************************************************)
\* `name = e` followed by the statements using it, written
\* Let([name \in {e} |-> statements]): e is evaluated once
Let(f) == f[CHOOSE x \in DOMAIN f : TRUE]

UpperChars == <<"A", "C", "E", "H", "O", "P", "Q", "S", "T">>
LowerChars == <<"a", "c", "e", "h", "o", "p", "q", "s", "t">>
OtherAlnum == {"d", "f", "m", "u", "x", "0", "1"}
AlphaChars ==
    {UpperChars[i] : i \in 1..Len(UpperChars)} \cup
    {LowerChars[i] : i \in 1..Len(LowerChars)} \cup {"d", "f", "m", "u", "x"}
\* [a-zA-Z0-9+\-.]
SchemeChars == AlphaChars \cup OtherAlnum \cup {"+", "-", "."}
Whitespace == {" "}

\* str.lower() on one character
LowerChar(c) ==
    IF \E i \in 1..Len(UpperChars) : UpperChars[i] = c
    THEN LowerChars[CHOOSE i \in 1..Len(UpperChars) : UpperChars[i] = c]
    ELSE c

\* str.lower()
StrLower(s) == [i \in 1..Len(s) |-> LowerChar(s[i])]

\* s[:n]
Truncate(s, n) == IF Len(s) <= n THEN s ELSE SubSeq(s, 1, n)

\* s[i-1:] (1-based i)
Drop(s, i) == SubSeq(s, i, Len(s))

\* str.strip()
StrStrip(s) ==
    LET nonws == {i \in 1..Len(s) : s[i] \notin Whitespace}
    IN  IF nonws = {} THEN <<>>
        ELSE LET lo == CHOOSE i \in nonws : \A j \in nonws : i <= j
                 hi == CHOOSE i \in nonws : \A j \in nonws : j <= i
             IN  SubSeq(s, lo, hi)

\* index of the first character of s that is in cs, 0 if none (str.find + 1)
FindFirst(s, cs) ==
    LET hits == {i \in 1..Len(s) : s[i] \in cs}
    IN  IF hits = {} THEN 0 ELSE CHOOSE i \in hits : \A j \in hits : i <= j

\* s.startswith(p)
StartsWith(s, p) == Len(s) >= Len(p) /\ SubSeq(s, 1, Len(p)) = p

\* code-point order of the characters used (for sorted())
CharOrder == <<" ", "#", "+", "-", ".", "/", "0", "1", ":", "?",
               "A", "C", "E", "H", "O", "P", "Q", "S", "T",
               "a", "c", "d", "e", "f", "h", "m", "o", "p", "q", "s", "t", "u", "x">>
Ord(c) == CHOOSE i \in 1..Len(CharOrder) : CharOrder[i] = c

\* s < t for Python strings
RECURSIVE StrLess(_, _)
StrLess(s, t) ==
    IF t = <<>> THEN FALSE
    ELSE IF s = <<>> THEN TRUE
    ELSE IF Ord(Head(s)) # Ord(Head(t)) THEN Ord(Head(s)) < Ord(Head(t))
    ELSE StrLess(Tail(s), Tail(t))

\* sorted(list of distinct strings)
RECURSIVE Sorted(_)
Sorted(l) ==
    IF l = <<>> THEN <<>>
    ELSE LET m == CHOOSE i \in 1..Len(l) :
                      \A j \in 1..Len(l) : j = i \/ StrLess(l[i], l[j]) \/ l[i] = l[j]
             rest == [k \in 1..(Len(l) - 1) |-> IF k < m THEN l[k] ELSE l[k + 1]]
         IN  <<l[m]>> \o Sorted(rest)

Range(l) == {l[i] : i \in 1..Len(l)}

(***************************************************************************)
(* service.py: URL normalization                                           *)
(***************************************************************************)
\* the value standing for "InvalidURLError was raised" (not a character sequence)
Invalid == <<"InvalidURLError">>

\* re.match(r'^[a-zA-Z][a-zA-Z0-9+\-.]*://', url)
HasSchemePrefix(url) ==
    \E i \in 2..Len(url) :
        /\ url[1] \in AlphaChars
        /\ \A j \in 2..(i - 1) : url[j] \in SchemeChars
        /\ StartsWith(Drop(url, i), <<":", "/", "/">>)

\* urllib.parse.urlparse for the characters of the model (no ';', '[', ']')
urlparse(url) ==
    LET colon  == FindFirst(url, {":"})
        hasSch == /\ colon > 1
                  /\ url[1] \in AlphaChars
                  /\ \A j \in 1..(colon - 1) : url[j] \in SchemeChars
        scheme == IF hasSch THEN StrLower(SubSeq(url, 1, colon - 1)) ELSE <<>>
    IN  Let([rest0 \in {IF hasSch THEN Drop(url, colon + 1) ELSE url} |->
        LET hasNet == StartsWith(rest0, <<"/", "/">>)
            after  == Drop(rest0, 3)
            delim  == FindFirst(after, {"/", "?", "#"})
            netloc == IF ~hasNet THEN <<>>
                      ELSE IF delim = 0 THEN after ELSE SubSeq(after, 1, delim - 1)
        IN  Let([rest1 \in {IF ~hasNet THEN rest0
                            ELSE IF delim = 0 THEN <<>> ELSE Drop(after, delim)} |->
            LET hash == FindFirst(rest1, {"#"})
                frag == IF hash = 0 THEN <<>> ELSE Drop(rest1, hash + 1)
            IN  Let([rest2 \in {IF hash = 0 THEN rest1
                                ELSE SubSeq(rest1, 1, hash - 1)} |->
                LET qm    == FindFirst(rest2, {"?"})
                    query == IF qm = 0 THEN <<>> ELSE Drop(rest2, qm + 1)
                    path  == IF qm = 0 THEN rest2 ELSE SubSeq(rest2, 1, qm - 1)
                IN  [scheme |-> scheme, netloc |-> netloc, path |-> path,
                     query |-> query, fragment |-> frag]])])])

\* urllib.parse.urlunparse (params always empty here)
urlunparse(p) ==
    Let([u0 \in {IF p.netloc # <<>>
                 THEN <<"/", "/">> \o p.netloc \o
                      (IF p.path # <<>> /\ Head(p.path) # "/" THEN <<"/">> ELSE <<>>)
                      \o p.path
                 ELSE p.path} |->
    Let([u1 \in {IF p.scheme # <<>> THEN p.scheme \o <<":">> \o u0 ELSE u0} |->
    Let([u2 \in {IF p.query # <<>> THEN u1 \o <<"?">> \o p.query ELSE u1} |->
        IF p.fragment # <<>> THEN u2 \o <<"#">> \o p.fragment ELSE u2])])])

\* _normalize_url without `.lower()` on the host
_normalize_url_KeepCase(raw_url) ==
    Let([url \in {StrStrip(raw_url)} |->
        IF url = <<>> THEN Invalid
        ELSE
        Let([parsed \in {urlparse(IF HasSchemePrefix(url) THEN url
                                  ELSE DEFAULT_SCHEME \o <<":", "/", "/">> \o url)} |->
            IF parsed.scheme \notin ACCEPTED_SCHEMES THEN Invalid
            ELSE IF parsed.netloc = <<>> THEN Invalid
            ELSE urlunparse([parsed EXCEPT
                     !.path = IF parsed.path = <<"/">> THEN <<>> ELSE parsed.path])])])

\* BookmarkService._normalize_url; Invalid stands for raising InvalidURLError
_normalize_url(raw_url) ==
    Let([url \in {StrStrip(raw_url)} |->
        IF url = <<>> THEN Invalid
        ELSE
        Let([parsed \in {urlparse(IF HasSchemePrefix(url) THEN url
                                  ELSE DEFAULT_SCHEME \o <<":", "/", "/">> \o url)} |->
            IF parsed.scheme \notin ACCEPTED_SCHEMES THEN Invalid
            ELSE IF parsed.netloc = <<>> THEN Invalid
            ELSE urlunparse([parsed EXCEPT
                     !.netloc = StrLower(parsed.netloc),
                     !.path = IF parsed.path = <<"/">> THEN <<>> ELSE parsed.path])])])

(***************************************************************************)
(* service.py: tag and text normalization                                  *)
(***************************************************************************)
\* _normalize_single_tag without `.lower()`
_normalize_single_tag_KeepCase(tag) == Truncate(StrStrip(tag), MAX_TAG_LENGTH)

\* BookmarkService._normalize_single_tag
_normalize_single_tag(tag) == Truncate(StrLower(StrStrip(tag)), MAX_TAG_LENGTH)

\* the for loop of _normalize_tags without the break at MAX_TAGS_PER_BOOKMARK
RECURSIVE NormalizeTagsLoop_NoCap(_, _)
NormalizeTagsLoop_NoCap(tags, acc) ==
    IF tags = <<>> THEN acc
    ELSE Let([tag \in {_normalize_single_tag(Head(tags))} |->
         NormalizeTagsLoop_NoCap(Tail(tags),
                                 IF tag # <<>> /\ tag \notin Range(acc)
                                 THEN Append(acc, tag) ELSE acc)])

\* the for loop of _normalize_tags: acc is `normalized`
RECURSIVE NormalizeTagsLoop(_, _)
NormalizeTagsLoop(tags, acc) ==
    IF tags = <<>> THEN acc
    ELSE Let([tag \in {_normalize_single_tag(Head(tags))} |->
         LET acc2 == IF tag # <<>> /\ tag \notin Range(acc) THEN Append(acc, tag)
                     ELSE acc
         IN  IF Len(acc2) >= MAX_TAGS_PER_BOOKMARK THEN acc2
             ELSE NormalizeTagsLoop(Tail(tags), acc2)])

\* _normalize_tags that keeps every distinct tag
_normalize_tags_NoCap(tags) == Sorted(NormalizeTagsLoop_NoCap(tags, <<>>))

\* BookmarkService._normalize_tags
_normalize_tags(tags) == Sorted(NormalizeTagsLoop(tags, <<>>))

\* BookmarkService._clean_title
_clean_title(title) == Truncate(StrStrip(title), MAX_TITLE_LENGTH)

\* description.strip()[:MAX_DESCRIPTION_LENGTH]
CleanDescription(description) == Truncate(StrStrip(description), MAX_DESCRIPTION_LENGTH)

(***************************************************************************)
(* The store.  A context c carries the three tables, the id sequence of    *)
(* the bookmarks table, the clock reading, the remaining fuel, the pending *)
(* exception ("none" when the call is still running) and the return value. *)
(***************************************************************************)
NoFault == MaxFuel + 1
None == "None"
OK == "none"

\* Optional[...] arguments: Absent is Python's None, Some(x) a supplied value
Absent == [given |-> FALSE, val |-> <<>>]
Some(x) == [given |-> TRUE, val |-> x]

Ctx(bm, tg, bt, sq, now, fuel) ==
    [bookmarks |-> bm, tags |-> tg, bookmark_tags |-> bt, seq |-> sq,
     now |-> now, fuel |-> fuel, exc |-> OK, ret |-> None]

Raise(c, e) == [c EXCEPT !.exc = e]

\* Database.connection: entering the block.  With no fuel left sqlite3
\* raises, the transaction is rolled back and DatabaseError is raised.
Faulted(c) == c.fuel = 0
Connected(c) == [c EXCEPT !.fuel = IF c.fuel = NoFault THEN NoFault ELSE c.fuel - 1]
DbFault(c) == Raise(c, "DatabaseError")

(***************************************************************************)
(* schemas/database.sql (not in the source tree): what the tables do       *)
(***************************************************************************)
\* bookmarks.url UNIQUE
UrlTaken(c, url) == \E r \in c.bookmarks : r.url = url

\* bookmarks.id as a plain rowid: one more than the largest id stored
NextBookmarkId_Rowid(c) ==
    IF c.bookmarks = {} THEN 1
    ELSE (CHOOSE r \in c.bookmarks : \A q \in c.bookmarks : q.id <= r.id).id + 1

\* bookmarks.id INTEGER PRIMARY KEY AUTOINCREMENT: ids grow, never reused
NextBookmarkId(c) == c.seq + 1

\* tags.id INTEGER PRIMARY KEY
NextTagId(c) ==
    IF c.tags = {} THEN 1
    ELSE (CHOOSE t \in c.tags : \A u \in c.tags : u.id <= t.id).id + 1

\* created_at / updated_at DEFAULT (current time, one-second resolution)
DefaultTimestamp(c) == c.now

\* no trigger: an UPDATE leaves updated_at alone
TouchUpdatedAt_None(c, row) == row

\* trigger on UPDATE of bookmarks: updated_at is set to the current time
TouchUpdatedAt(c, row) == [row EXCEPT !.updated_at = c.now]

\* bookmark_tags.bookmark_id REFERENCES bookmarks(id) ON DELETE CASCADE
CascadeBookmark(c, bookmark_id) == {a \in c.bookmark_tags : a[1] # bookmark_id}

\* bookmark_tags.tag_id REFERENCES tags(id) ON DELETE CASCADE
CascadeTag(c, tag_id) == {a \in c.bookmark_tags : a[2] # tag_id}

\* foreign key check of an inserted association (PRAGMA foreign_keys = ON)
ForeignKeyOk(c, bookmark_id, tag_id) ==
    /\ \E r \in c.bookmarks : r.id = bookmark_id
    /\ \E t \in c.tags : t.id = tag_id

(***************************************************************************)
(* repository.py                                                           *)
(***************************************************************************)
RowOf(c, bookmark_id) == CHOOSE r \in c.bookmarks : r.id = bookmark_id

\* BookmarkRepository._get_tag_names_for_bookmark: the query
TagNamesOf(tg, bt, bookmark_id) ==
    {t.name : t \in {u \in tg : <<bookmark_id, u.id>> \in bt}}

\* BookmarkRepository._get_tag_names_for_bookmark
_get_tag_names_for_bookmark(c, bookmark_id) ==
    IF Faulted(c) THEN DbFault(c)
    ELSE [Connected(c) EXCEPT
             !.ret = TagNamesOf(c.tags, c.bookmark_tags, bookmark_id)]

\* BookmarkRepository._row_to_bookmark
_row_to_bookmark(row, tags) ==
    [id |-> row.id, url |-> row.url, title |-> row.title,
     description |-> row.description, created_at |-> row.created_at,
     updated_at |-> row.updated_at, tags |-> tags]

\* BookmarkRepository.get_bookmark_by_id
get_bookmark_by_id(c, bookmark_id) ==
    IF Faulted(c) THEN DbFault(c)
    ELSE IF ~\E r \in c.bookmarks : r.id = bookmark_id
    THEN Raise(Connected(c), "BookmarkNotFoundError")
    ELSE Let([c2 \in {_get_tag_names_for_bookmark(Connected(c), bookmark_id)} |->
             IF c2.exc # OK THEN c2
             ELSE [c2 EXCEPT !.ret = _row_to_bookmark(RowOf(c2, bookmark_id), c2.ret)]])

\* INSERT ... VALUES ... OR REPLACE: a row with the same url is replaced
InsertBookmark_OrReplace(c, url, title, description) ==
    IF Faulted(c) THEN DbFault(c)
    ELSE LET c1 == Connected(c)
             bookmark_id == NextBookmarkId(c1)
         IN  [c1 EXCEPT
                 !.bookmarks =
                     {r \in @ : r.url # url}
                         \cup {[id |-> bookmark_id, url |-> url,
                                title |-> title, description |-> description,
                                created_at |-> DefaultTimestamp(c1),
                                updated_at |-> DefaultTimestamp(c1)]},
                 !.seq = bookmark_id,
                 !.ret = bookmark_id]

\* BookmarkRepository.create_bookmark: the `with` block (INSERT INTO
\* bookmarks, cur.lastrowid) and the handler of sqlite3.IntegrityError;
\* ret is bookmark_id
InsertBookmark(c, url, title, description) ==
    IF Faulted(c) THEN DbFault(c)
    ELSE LET c1 == Connected(c)
             bookmark_id == NextBookmarkId(c1)
         IN  IF UrlTaken(c1, url)
             THEN Raise(c1, "DuplicateBookmarkError")
             ELSE [c1 EXCEPT
                      !.bookmarks =
                          @ \cup {[id |-> bookmark_id, url |-> url,
                                   title |-> title, description |-> description,
                                   created_at |-> DefaultTimestamp(c1),
                                   updated_at |-> DefaultTimestamp(c1)]},
                      !.seq = bookmark_id,
                      !.ret = bookmark_id]

\* BookmarkRepository.create_bookmark
create_bookmark(c, url, title, description) ==
    Let([c1 \in {InsertBookmark(c, url, title, description)} |->
        IF c1.exc # OK THEN c1
        ELSE get_bookmark_by_id(c1, c1.ret)])

\* BookmarkRepository.update_bookmark (title, description: Optional[str])
repo_update_bookmark(c, bookmark_id, title, description) ==
    Let([c1 \in {get_bookmark_by_id(c, bookmark_id)} |->
        IF c1.exc # OK THEN c1
        ELSE IF Faulted(c1) THEN DbFault(c1)
        ELSE LET existing  == c1.ret
                 new_title == IF title.given THEN title.val ELSE existing.title
                 new_desc  == IF description.given THEN description.val
                              ELSE existing.description
                 c2  == Connected(c1)
                 old == RowOf(c2, bookmark_id)
                 new == TouchUpdatedAt(c2, [old EXCEPT !.title = new_title,
                                                       !.description = new_desc])
             IN  get_bookmark_by_id([c2 EXCEPT !.bookmarks = (@ \ {old}) \cup {new}],
                                    bookmark_id)])

\* BookmarkRepository.delete_bookmark
repo_delete_bookmark(c, bookmark_id) ==
    Let([c1 \in {get_bookmark_by_id(c, bookmark_id)} |->
        IF c1.exc # OK THEN c1
        ELSE IF Faulted(c1) THEN DbFault(c1)
        ELSE LET c2 == Connected(c1)
             IN  [c2 EXCEPT !.bookmarks = {r \in @ : r.id # bookmark_id},
                            !.bookmark_tags = CascadeBookmark(c2, bookmark_id),
                            !.ret = None]])

\* BookmarkRepository.get_or_create_tag; ret is the tag's id
get_or_create_tag(c, name) ==
    IF Faulted(c) THEN DbFault(c)
    ELSE LET c1 == Connected(c)
         IN  IF \E t \in c1.tags : t.name = name
             THEN [c1 EXCEPT !.ret = (CHOOSE t \in c1.tags : t.name = name).id]
             ELSE LET tag_id == NextTagId(c1)
                  IN  [c1 EXCEPT !.tags = @ \cup {[id |-> tag_id, name |-> name]},
                                 !.ret = tag_id]

\* a plain INSERT INTO bookmark_tags: a pair that is stored already violates
\* the key of the table
InsertAssociation_NoIgnore(c, bookmark_id, tag_id) ==
    IF Faulted(c) THEN DbFault(c)
    ELSE LET c1 == Connected(c)
         IN  IF \/ ~ForeignKeyOk(c1, bookmark_id, tag_id)
                \/ <<bookmark_id, tag_id>> \in c1.bookmark_tags
             THEN Raise(c1, "IntegrityError")
             ELSE [c1 EXCEPT !.bookmark_tags = @ \cup {<<bookmark_id, tag_id>>},
                             !.ret = None]

\* BookmarkRepository.add_tags_to_bookmark: the `with` block of one tag
\* (INSERT OR IGNORE INTO bookmark_tags)
InsertAssociation(c, bookmark_id, tag_id) ==
    IF Faulted(c) THEN DbFault(c)
    ELSE LET c1 == Connected(c)
         IN  IF ~ForeignKeyOk(c1, bookmark_id, tag_id)
             THEN Raise(c1, "IntegrityError")
             ELSE [c1 EXCEPT !.bookmark_tags = @ \cup {<<bookmark_id, tag_id>>},
                             !.ret = None]

\* BookmarkRepository.add_tags_to_bookmark
RECURSIVE add_tags_to_bookmark(_, _, _)
add_tags_to_bookmark(c, bookmark_id, tag_names) ==
    IF tag_names = <<>> THEN [c EXCEPT !.ret = None]
    ELSE Let([c1 \in {get_or_create_tag(c, Head(tag_names))} |->
             IF c1.exc # OK THEN c1
             ELSE Let([c2 \in {InsertAssociation(c1, bookmark_id, c1.ret)} |->
                      IF c2.exc # OK THEN c2
                      ELSE add_tags_to_bookmark(c2, bookmark_id, Tail(tag_names))])])

\* BookmarkRepository.remove_tags_from_bookmark
RECURSIVE remove_tags_from_bookmark(_, _, _)
remove_tags_from_bookmark(c, bookmark_id, tag_names) ==
    IF tag_names = <<>> THEN [c EXCEPT !.ret = None]
    ELSE IF Faulted(c) THEN DbFault(c)
    ELSE LET c1  == Connected(c)
             ids == {t.id : t \in {u \in c1.tags : u.name = Head(tag_names)}}
         IN  remove_tags_from_bookmark(
                 [c1 EXCEPT !.bookmark_tags =
                                {a \in @ : ~(a[1] = bookmark_id /\ a[2] \in ids)}],
                 bookmark_id, Tail(tag_names))

\* set_tags_for_bookmark without the DELETE: the new tags are merged in
set_tags_for_bookmark_Merge(c, bookmark_id, tag_names) ==
    IF Faulted(c) THEN DbFault(c)
    ELSE LET c2 == [Connected(c) EXCEPT !.ret = None]
         IN  IF tag_names # <<>> THEN add_tags_to_bookmark(c2, bookmark_id, tag_names)
             ELSE c2

\* BookmarkRepository.set_tags_for_bookmark
set_tags_for_bookmark(c, bookmark_id, tag_names) ==
    IF Faulted(c) THEN DbFault(c)
    ELSE LET c1 == Connected(c)
             c2 == [c1 EXCEPT !.bookmark_tags = {a \in @ : a[1] # bookmark_id},
                              !.ret = None]
         IN  IF tag_names # <<>> THEN add_tags_to_bookmark(c2, bookmark_id, tag_names)
             ELSE c2

\* COUNT(*) instead: the unmatched row of the LEFT JOIN counts as one
TagUsage_CountStar(bt, tag_id) ==
    IF {a \in bt : a[2] = tag_id} = {} THEN 1
    ELSE Cardinality({a \in bt : a[2] = tag_id})

\* COUNT(bt.bookmark_id) of one group of the LEFT JOIN in list_all_tags
TagUsage(bt, tag_id) == Cardinality({a \in bt : a[2] = tag_id})

\* BookmarkRepository.list_all_tags: the rows of the query as TagCount values
\* (the ORDER BY is not modelled: the result is taken as a set)
list_all_tags(tg, bt) ==
    {[name |-> t.name, count |-> TagUsage(bt, t.id)] : t \in tg}

\* ORDER BY created_at DESC: the orders the engine may return `rows` in;
\* rows with the same created_at may come in either order
NewestFirst(rows) ==
    {s \in [1..Cardinality(rows) -> rows] :
        /\ \A i, j \in DOMAIN s : i # j => s[i] # s[j]
        /\ \A i, j \in DOMAIN s : i < j => s[i].created_at >= s[j].created_at}

\* LIMIT ? OFFSET ? of the engine: a negative limit is no limit, a negative
\* offset is 0
Page(s, limit, offset) ==
    LET skip == IF offset < 0 THEN 0 ELSE offset
        last_index == IF limit < 0 \/ skip + limit > Len(s) THEN Len(s)
                      ELSE skip + limit
    IN  SubSeq(s, skip + 1, last_index)

\* the loop `for row in rows` of list_bookmarks and search_bookmarks: one
\* connection per row; ret is the list of Bookmark values
RECURSIVE RowsToBookmarks(_, _, _)
RowsToBookmarks(c, rows, acc) ==
    IF rows = <<>> THEN [c EXCEPT !.ret = acc]
    ELSE Let([c1 \in {_get_tag_names_for_bookmark(c, Head(rows).id)} |->
             IF c1.exc # OK THEN c1
             ELSE RowsToBookmarks(c1, Tail(rows),
                                  Append(acc, _row_to_bookmark(Head(rows), c1.ret)))])

\* the rows selected by list_bookmarks: all, or those joined to tag `tag`
ListedRows(c, tag) ==
    IF tag.given /\ tag.val # <<>>
    THEN {r \in c.bookmarks : tag.val \in TagNamesOf(c.tags, c.bookmark_tags, r.id)}
    ELSE c.bookmarks

\* BookmarkRepository.list_bookmarks (tag: Optional[str]); `order` is the
\* order the engine returns the selected rows in
repo_list_bookmarks(c, tag, limit, offset, order) ==
    IF Faulted(c) THEN DbFault(c)
    ELSE RowsToBookmarks(Connected(c), Page(order, limit, offset), <<>>)

\* text LIKE pattern of the engine, no ESCAPE: % is any run of characters,
\* _ is any one character, letters match without regard to case
RECURSIVE Like(_, _)
Like(text, pattern) ==
    IF pattern = <<>> THEN text = <<>>
    ELSE IF Head(pattern) = "%"
    THEN Like(text, Tail(pattern)) \/ (text # <<>> /\ Like(Tail(text), pattern))
    ELSE /\ text # <<>>
         /\ Head(pattern) = "_" \/ LowerChar(Head(pattern)) = LowerChar(Head(text))
         /\ Like(Tail(text), Tail(pattern))

\* the rows selected by search_bookmarks: pattern = f"%{query}%"
SearchedRows(c, query) ==
    Let([pattern \in {<<"%">> \o query \o <<"%">>} |->
        {r \in c.bookmarks :
            Like(r.url, pattern) \/ Like(r.title, pattern) \/ Like(r.description, pattern)}])

\* BookmarkRepository.search_bookmarks; `order` is the order the engine
\* returns the selected rows in
repo_search_bookmarks(c, query, limit, order) ==
    IF Faulted(c) THEN DbFault(c)
    ELSE RowsToBookmarks(Connected(c), Page(order, limit, 0), <<>>)

\* BookmarkRepository.delete_tag
delete_tag(c, name) ==
    IF Faulted(c) THEN DbFault(c)
    ELSE LET c1 == Connected(c)
         IN  IF ~\E t \in c1.tags : t.name = name
             THEN Raise(c1, "TagNotFoundError")
             ELSE LET row == CHOOSE t \in c1.tags : t.name = name
                  IN  [c1 EXCEPT !.tags = @ \ {row},
                                 !.bookmark_tags = CascadeTag(c1, row.id),
                                 !.ret = None]

(***************************************************************************)
(* service.py                                                              *)
(***************************************************************************)
\* BookmarkService.add_bookmark (tags: Optional[List[str]])
add_bookmark(c, url, title, description, tags) ==
    Let([normalized_url \in {_normalize_url(url)} |->
        IF normalized_url = Invalid THEN Raise(c, "InvalidURLError")
        ELSE
        Let([normalized_tags \in {_normalize_tags(IF tags.given THEN tags.val
                                                  ELSE <<>>)} |->
        Let([c1 \in {create_bookmark(
                         c, normalized_url,
                         _clean_title(IF title # <<>> THEN title ELSE normalized_url),
                         CleanDescription(description))} |->
            IF c1.exc # OK THEN c1
            ELSE IF normalized_tags = <<>> THEN c1
            ELSE Let([c2 \in {add_tags_to_bookmark(c1, c1.ret.id, normalized_tags)} |->
                     IF c2.exc # OK THEN c2
                     ELSE get_bookmark_by_id(c2, c1.ret.id)])])])])

\* BookmarkService.get_bookmark
get_bookmark(c, bookmark_id) == get_bookmark_by_id(c, bookmark_id)

\* BookmarkService.delete_bookmark
delete_bookmark(c, bookmark_id) == repo_delete_bookmark(c, bookmark_id)

\* update_bookmark replacing the tags before it looks the bookmark up
update_bookmark_TagsFirst(c, bookmark_id, title, description, tags) ==
    Let([c0 \in {IF tags.given
                 THEN set_tags_for_bookmark(c, bookmark_id, _normalize_tags(tags.val))
                 ELSE c} |->
        IF c0.exc # OK THEN c0
        ELSE repo_update_bookmark(
                 c0, bookmark_id,
                 IF title.given THEN Some(_clean_title(title.val)) ELSE Absent,
                 IF description.given THEN Some(CleanDescription(description.val))
                 ELSE Absent)])

\* BookmarkService.update_bookmark (all three arguments Optional)
update_bookmark(c, bookmark_id, title, description, tags) ==
    Let([c1 \in {repo_update_bookmark(
                     c, bookmark_id,
                     IF title.given THEN Some(_clean_title(title.val)) ELSE Absent,
                     IF description.given THEN Some(CleanDescription(description.val))
                     ELSE Absent)} |->
        IF c1.exc # OK THEN c1
        ELSE IF ~tags.given THEN c1
        ELSE Let([c2 \in {set_tags_for_bookmark(c1, bookmark_id,
                                                _normalize_tags(tags.val))} |->
                 IF c2.exc # OK THEN c2
                 ELSE get_bookmark_by_id(c2, bookmark_id)])])

\* BookmarkService.list_bookmarks: clean_tag
CleanTag(tag) ==
    IF tag.given /\ tag.val # <<>> THEN Some(_normalize_single_tag(tag.val)) ELSE Absent

\* BookmarkService.list_bookmarks: the limit handed to the repository, which
\* binds it to LIMIT ?
ListLimit(limit) == limit

\* BookmarkService.list_bookmarks (tag: Optional[str])
list_bookmarks(c, tag, limit, offset, order) ==
    repo_list_bookmarks(c, CleanTag(tag), ListLimit(limit), offset, order)

\* BookmarkService.search_bookmarks
search_bookmarks(c, query, limit, order) ==
    IF query = <<>> \/ StrStrip(query) = <<>> THEN [c EXCEPT !.ret = <<>>]
    ELSE repo_search_bookmarks(c, StrStrip(query), limit, order)

\* BookmarkService.list_tags
list_tags(tg, bt) == list_all_tags(tg, bt)

(***************************************************************************)
(* models.py: ImportResult                                                 *)
(***************************************************************************)
NewImportResult == [total |-> 0, imported |-> 0, skipped |-> 0, errors |-> <<>>]

\* add_error that records the message and leaves total alone
add_error_NoTotal(r, message) == [r EXCEPT !.errors = Append(@, message)]

\* ImportResult.add_error
add_error(r, message) == [r EXCEPT !.errors = Append(@, message), !.total = @ + 1]

\* ImportResult.add_success
add_success(r) == [r EXCEPT !.total = @ + 1, !.imported = @ + 1]

\* ImportResult.add_skip
add_skip(r) == [r EXCEPT !.total = @ + 1, !.skipped = @ + 1]

\* import_bookmark counting a duplicate as a failure
import_bookmark_DupAsError(c, entry, result) ==
    Let([c1 \in {add_bookmark(c, entry.url, entry.title, entry.description,
                              Some(entry.tags))} |->
        IF c1.exc = OK
        THEN [ctx |-> c1, result |-> add_success(result), added |-> "ok",
              id |-> c1.ret.id]
        ELSE IF c1.exc \in {"DuplicateBookmarkError", "InvalidURLError"}
        THEN [ctx |-> [c1 EXCEPT !.exc = OK, !.ret = None],
              result |-> add_error(result, entry.url), added |-> c1.exc, id |-> 0]
        ELSE [ctx |-> c1, result |-> result, added |-> c1.exc, id |-> 0]])

\* import_bookmark with `except Exception`: every error is recorded per entry
import_bookmark_CatchAll(c, entry, result) ==
    Let([c1 \in {add_bookmark(c, entry.url, entry.title, entry.description,
                              Some(entry.tags))} |->
        IF c1.exc = OK
        THEN [ctx |-> c1, result |-> add_success(result), added |-> "ok",
              id |-> c1.ret.id]
        ELSE IF c1.exc = "DuplicateBookmarkError"
        THEN [ctx |-> [c1 EXCEPT !.exc = OK, !.ret = None],
              result |-> add_skip(result), added |-> c1.exc, id |-> 0]
        ELSE [ctx |-> [c1 EXCEPT !.exc = OK, !.ret = None],
              result |-> add_error(result, entry.url), added |-> c1.exc, id |-> 0]])

\* import_bookmark that gives the tags of a duplicate entry to the bookmark
\* already stored with its URL
import_bookmark_TagStored(c, entry, result) ==
    Let([c1 \in {add_bookmark(c, entry.url, entry.title, entry.description,
                              Some(entry.tags))} |->
        IF c1.exc = OK
        THEN [ctx |-> c1, result |-> add_success(result), added |-> "ok",
              id |-> c1.ret.id]
        ELSE IF c1.exc = "DuplicateBookmarkError"
        THEN [ctx |-> [add_tags_to_bookmark(
                           [c1 EXCEPT !.exc = OK],
                           (CHOOSE r \in c1.bookmarks : r.url = _normalize_url(entry.url)).id,
                           _normalize_tags(entry.tags))
                       EXCEPT !.exc = OK, !.ret = None],
              result |-> add_skip(result), added |-> c1.exc, id |-> 0]
        ELSE IF c1.exc = "InvalidURLError"
        THEN [ctx |-> [c1 EXCEPT !.exc = OK, !.ret = None],
              result |-> add_error(result, entry.url), added |-> c1.exc, id |-> 0]
        ELSE [ctx |-> c1, result |-> result, added |-> c1.exc, id |-> 0]])

\* BookmarkService.import_bookmark: the context after the call (exc is OK
\* when the exception was caught), the accumulator, how add_bookmark ended
\* and the id of the bookmark it returned (0 if none).
import_bookmark(c, entry, result) ==
    Let([c1 \in {add_bookmark(c, entry.url, entry.title, entry.description,
                              Some(entry.tags))} |->
        IF c1.exc = OK
        THEN [ctx |-> c1, result |-> add_success(result), added |-> "ok",
              id |-> c1.ret.id]
        ELSE IF c1.exc = "DuplicateBookmarkError"
        THEN [ctx |-> [c1 EXCEPT !.exc = OK, !.ret = None],
              result |-> add_skip(result), added |-> c1.exc, id |-> 0]
        ELSE IF c1.exc = "InvalidURLError"
        THEN [ctx |-> [c1 EXCEPT !.exc = OK, !.ret = None],
              result |-> add_error(result, entry.url), added |-> c1.exc, id |-> 0]
        ELSE [ctx |-> c1, result |-> result, added |-> c1.exc, id |-> 0]])

\* combined_tags = list(dict.fromkeys(entry.tags + extra_tags))
RECURSIVE DedupKeepOrder(_, _)
DedupKeepOrder(l, acc) ==
    IF l = <<>> THEN acc
    ELSE DedupKeepOrder(Tail(l), IF Head(l) \in Range(acc) THEN acc ELSE Append(acc, Head(l)))

(***************************************************************************)
(* html_parser.py: export and parse.  A document is the sequence of its    *)
(* <DT> entries, each with the texts written between the quotes of HREF    *)
(* and TAGS, inside <A> and after <DD>; the HTML parser gives back each    *)
(* text with its character references replaced.                            *)
(***************************************************************************)
\* _escape_html
RECURSIVE _escape_html(_)
_escape_html(text) ==
    IF text = <<>> THEN <<>>
    ELSE (CASE Head(text) = "&" -> <<"&", "a", "m", "p", ";">>
            [] Head(text) = "<" -> <<"&", "l", "t", ";">>
            [] Head(text) = ">" -> <<"&", "g", "t", ";">>
            [] Head(text) = "\"" -> <<"&", "q", "u", "o", "t", ";">>
            [] OTHER -> <<Head(text)>>) \o _escape_html(Tail(text))

\* the text the parser returns for the characters of an attribute value or
\* of an element: &amp; &lt; &gt; &quot; replaced
RECURSIVE Unescape(_)
Unescape(text) ==
    IF text = <<>> THEN <<>>
    ELSE IF StartsWith(text, <<"&", "a", "m", "p", ";">>)
    THEN <<"&">> \o Unescape(Drop(text, 6))
    ELSE IF StartsWith(text, <<"&", "l", "t", ";">>)
    THEN <<"<">> \o Unescape(Drop(text, 5))
    ELSE IF StartsWith(text, <<"&", "g", "t", ";">>)
    THEN <<">">> \o Unescape(Drop(text, 5))
    ELSE IF StartsWith(text, <<"&", "q", "u", "o", "t", ";">>)
    THEN <<"\"">> \o Unescape(Drop(text, 7))
    ELSE <<Head(text)>> \o Unescape(Tail(text))

\* sep.join(l)
RECURSIVE Join(_, _)
Join(l, sep) ==
    IF l = <<>> THEN <<>>
    ELSE IF Len(l) = 1 THEN l[1]
    ELSE l[1] \o <<sep>> \o Join(Tail(l), sep)

\* s.split(sep)
RECURSIVE Split(_, _)
Split(s, sep) ==
    Let([i \in {FindFirst(s, {sep})} |->
        IF i = 0 THEN <<s>>
        ELSE <<SubSeq(s, 1, i - 1)>> \o Split(Drop(s, i + 1), sep)])

\* bm.tags, the list of the tag names of a Bookmark
RECURSIVE TagList(_)
TagList(names) ==
    IF names = {} THEN <<>>
    ELSE Let([name \in {CHOOSE n \in names : TRUE} |->
             <<name>> \o TagList(names \ {name})])

\* export_bookmarks_to_html: the entry written for one Bookmark
ExportEntry(bm) ==
    [href |-> _escape_html(bm.url),
     tags |-> _escape_html(Join(TagList(bm.tags), ",")),
     title |-> _escape_html(IF bm.title # <<>> THEN bm.title ELSE bm.url),
     dd |-> IF bm.description # <<>> THEN Some(_escape_html(bm.description))
            ELSE Absent]

\* `if t.strip()` of the list comprehension of _extract_entries
NonBlank(t) == StrStrip(t) # <<>>

\* BookmarkHTMLParser._extract_entries: the _ParsedEntry of one <A> element
\* (none when href is empty or starts with "javascript:")
ParseEntry(e) ==
    Let([href \in {StrStrip(Unescape(e.href))} |->
        IF href = <<>>
           \/ StartsWith(href, <<"j", "a", "v", "a", "s", "c", "r", "i", "p", "t", ":">>)
        THEN <<>>
        ELSE Let([kept \in {SelectSeq(Split(Unescape(e.tags), ","), NonBlank)} |->
             << [url |-> href,
                 title |-> StrStrip(Unescape(e.title)),
                 description |-> IF e.dd.given THEN StrStrip(Unescape(e.dd.val))
                                 ELSE <<>>,
                 tags |-> [i \in 1..Len(kept) |-> StrStrip(kept[i])]] >>])])

\* the document written for a list of Bookmarks, read back by parse_file
RECURSIVE ExportThenParse(_)
ExportThenParse(bms) ==
    IF bms = <<>> THEN <<>>
    ELSE ParseEntry(ExportEntry(Head(bms))) \o ExportThenParse(Tail(bms))

\* import_bookmarks_from_html: the loop over the entries, no default tags
RECURSIVE ImportEntries(_, _, _)
ImportEntries(c, entries, result) ==
    IF entries = <<>> THEN c
    ELSE Let([r \in {import_bookmark(
                         c, [Head(entries) EXCEPT !.tags = DedupKeepOrder(@, <<>>)],
                         result)} |->
             IF r.ctx.exc # OK THEN r.ctx
             ELSE ImportEntries(r.ctx, Tail(entries), r.result)])

(***************************************************************************)
(* Inputs                                                                  *)
(***************************************************************************)
\* "e.co"
UrlBare == <<"e", ".", "c", "o">>
\* "HTTPS://E.co/"
UrlUpper == <<"H", "T", "T", "P", "S", ":", "/", "/", "E", ".", "c", "o", "/">>
\* " http://e.co/a"
UrlPath == <<" ", "h", "t", "t", "p", ":", "/", "/", "e", ".", "c", "o", "/", "a">>
\* "ssh://e.co"
UrlSsh == <<"s", "s", "h", ":", "/", "/", "e", ".", "c", "o">>
RawUrls == {UrlBare, UrlUpper, UrlPath, UrlSsh}

AddTitles == {<<>>, <<"x">>}
AddDescriptions == {<<"d">>}
\* None, ["P", " p "]
AddTagLists == {Absent, Some(<< <<"P">>, <<" ", "p", " ">> >>)}

\* None, "x "
UpdateTitles == {Absent, Some(<<"x", " ">>)}
\* None, " e"
UpdateDescriptions == {Absent, Some(<<" ", "e">>)}
\* None, [], ["Q"]
UpdateTagLists == {Absent, Some(<<>>), Some(<< <<"Q">> >>)}

\* tag name lists handed to the repository directly
RepoTagLists == { << <<"p">> >>, << <<"p">>, <<"q">> >> }
RepoTagNames == { <<"p">>, <<"q">> }

BookmarkIds == 1..MaxId
Fuels == 0..NoFault

(***************************************************************************)
(* State                                                                   *)
(***************************************************************************)
VARIABLES bookmarks, tags, bookmark_tags, seq, clock, last, imp, hist, procs

vars == <<bookmarks, tags, bookmark_tags, seq, clock, last, imp, hist, procs>>
store == <<bookmarks, tags, bookmark_tags, seq>>

\* the call that ran last: its arguments and how it ended
Call(op, id, url, title, description, tgs, result, ret) ==
    [op |-> op, id |-> id, url |-> url, title |-> title,
     description |-> description, tags |-> tgs, result |-> result, ret |-> ret]

NoCall == Call("none", 0, <<>>, Absent, Absent, Absent, "ok", 0)

\* the frame of import_bookmarks_from_html; `before` remembers the URLs
\* stored when the import started
ImpIdle == [status |-> "idle", entries |-> <<>>, extra_tags |-> <<>>,
            idx |-> 1, result |-> NewImportResult, before |-> {}]

\* history: the ids successful adds returned, the ids successfully deleted
NoHist == [issued |-> {}, deleted |-> {}]

\* the processes that use the same store at the same time
Procs == {1, 2}

\* the frame of one process's add_bookmark call: where it is (pc), its
\* locals, how it ended, and whether the other call was running meanwhile
\* a process may also make one repository call (op) instead: tag_names,
\* new_title, new_desc are its arguments and locals, `old` the tag names the
\* bookmark carried when the call began, `seen` the Bookmark a read returned
ProcIdle == [pc |-> "idle", url |-> <<>>, normalized_url |-> <<>>,
             normalized_tags |-> <<>>, rest |-> <<>>, bookmark_id |-> 0,
             tag_id |-> 0, result |-> "none", overlap |-> FALSE,
             op |-> "add_bookmark", tag_names |-> <<>>, old |-> {},
             title |-> Absent, description |-> Absent,
             new_title |-> <<>>, new_desc |-> <<>>, seen |-> {}]
Issue(id) == [hist EXCEPT !.issued = IF id = 0 THEN @ ELSE @ \cup {id}]
Deleted(c, id) == [hist EXCEPT !.deleted = IF c.exc = OK THEN @ \cup {id} ELSE @]

Init ==
    /\ bookmarks = {}
    /\ tags = {}
    /\ bookmark_tags = {}
    /\ seq = 0
    /\ clock = 0
    /\ last = NoCall
    /\ imp = ImpIdle
    /\ hist = NoHist
    /\ procs = [p \in Procs |-> ProcIdle]

Start(fuel) == Ctx(bookmarks, tags, bookmark_tags, seq, clock, fuel)

Commit(c) ==
    /\ bookmarks' = c.bookmarks
    /\ tags' = c.tags
    /\ bookmark_tags' = c.bookmark_tags
    /\ seq' = c.seq

Outcome(c) == IF c.exc = OK THEN "ok" ELSE c.exc

\* id of the Bookmark a call returned, 0 when it raised
Returned(c) == IF c.exc = OK THEN c.ret.id ELSE 0

NotImporting == imp.status # "running"

(***************************************************************************)
(* Service calls                                                           *)
(***************************************************************************)
AddBookmark(url, title, description, tgs, fuel) ==
    \E c \in {add_bookmark(Start(fuel), url, title, description, tgs)} :
        /\ NotImporting
        /\ c.seq <= MaxId
        /\ Commit(c)
        /\ last' = Call("add_bookmark", 0, url, Some(title), Some(description), tgs,
                        Outcome(c), Returned(c))
        /\ hist' = Issue(Returned(c))
        /\ imp' = ImpIdle
        /\ UNCHANGED <<clock, procs>>

GetBookmark(bookmark_id, fuel) ==
    \E c \in {get_bookmark(Start(fuel), bookmark_id)} :
        /\ NotImporting
        /\ Commit(c)
        /\ last' = Call("get_bookmark", bookmark_id, <<>>, Absent, Absent, Absent,
                        Outcome(c), Returned(c))
        /\ imp' = ImpIdle
        /\ UNCHANGED <<clock, hist, procs>>

UpdateBookmark(bookmark_id, title, description, tgs, fuel) ==
    \E c \in {update_bookmark(Start(fuel), bookmark_id, title, description, tgs)} :
        /\ NotImporting
        /\ Commit(c)
        /\ last' = Call("update_bookmark", bookmark_id, <<>>, title, description, tgs,
                        Outcome(c), Returned(c))
        /\ imp' = ImpIdle
        /\ UNCHANGED <<clock, hist, procs>>

DeleteBookmark(bookmark_id, fuel) ==
    \E c \in {delete_bookmark(Start(fuel), bookmark_id)} :
        /\ NotImporting
        /\ Commit(c)
        /\ last' = Call("delete_bookmark", bookmark_id, <<>>, Absent, Absent, Absent,
                        Outcome(c), 0)
        /\ hist' = Deleted(c, bookmark_id)
        /\ imp' = ImpIdle
        /\ UNCHANGED <<clock, procs>>

\* a listing call ended: the arguments it was made with and the list it
\* returned (empty when it raised)
Listing(c, limit, offset) ==
    [rows |-> IF c.exc = OK THEN c.ret ELSE <<>>, limit |-> limit, offset |-> offset]

ListBookmarks(tag, limit, offset, fuel) ==
    \E order \in NewestFirst(ListedRows(Start(fuel), CleanTag(tag))) :
    \E c \in {list_bookmarks(Start(fuel), tag, limit, offset, order)} :
        /\ NotImporting
        /\ Commit(c)
        /\ last' = Call("list_bookmarks", 0, <<>>, Absent, Absent, tag,
                        Outcome(c), Listing(c, limit, offset))
        /\ imp' = ImpIdle
        /\ UNCHANGED <<clock, hist, procs>>

\* a search call ended: its arguments and the list it returned
Found(c, query, limit) ==
    [rows |-> IF c.exc = OK THEN c.ret ELSE <<>>, limit |-> limit, offset |-> 0,
     query |-> query]

SearchBookmarks(query, limit, fuel) ==
    \E order \in NewestFirst(SearchedRows(Start(fuel), StrStrip(query))) :
    \E c \in {search_bookmarks(Start(fuel), query, limit, order)} :
        /\ NotImporting
        /\ Commit(c)
        /\ last' = Call("search_bookmarks", 0, <<>>, Absent, Absent, Absent,
                        Outcome(c), Found(c, query, limit))
        /\ imp' = ImpIdle
        /\ UNCHANGED <<clock, hist, procs>>

\* the wall clock advances between calls
Tick ==
    /\ NotImporting
    /\ clock < MaxClock
    /\ clock' = clock + 1
    /\ UNCHANGED <<store, last, imp, hist, procs>>

(***************************************************************************)
(* Repository calls made directly                                          *)
(***************************************************************************)
RepoCall(op, bookmark_id, names, c) ==
    /\ NotImporting
    /\ \A t \in c.tags : t.id <= MaxTagId
    /\ Commit(c)
    /\ last' = Call(op, bookmark_id, <<>>, Absent, Absent, Some(names), Outcome(c), 0)
    /\ hist' = IF op = "repo_delete_bookmark" THEN Deleted(c, bookmark_id) ELSE hist
    /\ imp' = ImpIdle
    /\ UNCHANGED <<clock, procs>>

RepoAddTags(bookmark_id, names, fuel) ==
    RepoCall("add_tags_to_bookmark", bookmark_id, names,
             add_tags_to_bookmark(Start(fuel), bookmark_id, names))

RepoSetTags(bookmark_id, names, fuel) ==
    RepoCall("set_tags_for_bookmark", bookmark_id, names,
             set_tags_for_bookmark(Start(fuel), bookmark_id, names))

RepoRemoveTags(bookmark_id, names, fuel) ==
    RepoCall("remove_tags_from_bookmark", bookmark_id, names,
             remove_tags_from_bookmark(Start(fuel), bookmark_id, names))

RepoDeleteTag(name, fuel) ==
    RepoCall("delete_tag", 0, <<name>>, delete_tag(Start(fuel), name))

RepoUpdateBookmark(bookmark_id, title, fuel) ==
    \E c \in {repo_update_bookmark(Start(fuel), bookmark_id, title, Absent)} :
        /\ NotImporting
        /\ Commit(c)
        /\ last' = Call("repo_update_bookmark", bookmark_id, <<>>, title, Absent, Absent,
                        Outcome(c), Returned(c))
        /\ imp' = ImpIdle
        /\ UNCHANGED <<clock, hist, procs>>

RepoDeleteBookmark(bookmark_id, fuel) ==
    RepoCall("repo_delete_bookmark", bookmark_id, <<>>,
             repo_delete_bookmark(Start(fuel), bookmark_id))

(***************************************************************************)
(* html_parser.py: import_bookmarks_from_html, one loop iteration a step   *)
(***************************************************************************)
Entry(url, title, description, tgs) ==
    [url |-> url, title |-> title, description |-> description, tags |-> tgs]

\* parsed entries an import file can hold
Entries ==
    { Entry(UrlBare, <<"x">>, <<>>, << <<"P">> >>),
      Entry(UrlPath, <<>>, <<"d">>, <<>>),
      Entry(UrlSsh, <<"x">>, <<>>, << <<"q">> >>) }

RECURSIVE SeqsUpTo(_, _)
SeqsUpTo(S, n) ==
    IF n = 0 THEN {<<>>}
    ELSE LET shorter == SeqsUpTo(S, n - 1)
         IN  shorter \cup {Append(l, e) : l \in shorter, e \in S}

\* the entry lists parse_file can return
Files == SeqsUpTo(Entries, MaxEntries)

\* None, ["q"]
DefaultTagLists == {Absent, Some(<< <<"q">> >>)}

\* the entries of a file whose URL is accepted
ValidEntries(entries) ==
    {i \in 1..Len(entries) : _normalize_url(entries[i].url) # Invalid}

\* parser.parse_file returned `entries`; result = ImportResult()
ImportStart(entries, default_tags) ==
    /\ NotImporting
    /\ imp' = [status |-> "running", entries |-> entries,
               extra_tags |-> IF default_tags.given THEN default_tags.val ELSE <<>>,
               idx |-> 1, result |-> NewImportResult,
               before |-> {b.url : b \in bookmarks}]
    /\ last' = Call("import_bookmarks_from_html", 0, <<>>, Absent, Absent, default_tags,
                    "ok", 0)
    /\ UNCHANGED <<store, clock, hist, procs>>

\* one iteration of `for entry in entries`
ImportStep(fuel) ==
    /\ imp.status = "running"
    /\ imp.idx <= Len(imp.entries)
    /\ \E entry \in {imp.entries[imp.idx]} :
       \E combined_tags \in {DedupKeepOrder(entry.tags \o imp.extra_tags, <<>>)} :
       \E r \in {import_bookmark(Start(fuel), [entry EXCEPT !.tags = combined_tags],
                                 imp.result)} :
           /\ Commit(r.ctx)
           /\ last' = Call("import_bookmark", 0, entry.url, Some(entry.title),
                           Some(entry.description), Some(combined_tags),
                           r.added, r.id)
           /\ hist' = Issue(r.id)
           /\ imp' = IF r.ctx.exc = OK
                     THEN [imp EXCEPT !.idx = @ + 1, !.result = r.result]
                     ELSE [imp EXCEPT !.status = "aborted", !.result = r.result]
    /\ UNCHANGED <<clock, procs>>

\* `return result`
ImportReturn ==
    /\ imp.status = "running"
    /\ imp.idx > Len(imp.entries)
    /\ imp' = [imp EXCEPT !.status = "returned"]
    /\ UNCHANGED <<store, clock, last, hist, procs>>

\* url, title, description and tag set of the bookmarks of a store
Views(c) ==
    {[url |-> r.url, title |-> r.title, description |-> r.description,
      tags |-> TagNamesOf(c.tags, c.bookmark_tags, r.id)] : r \in c.bookmarks}

\* the stored bookmarks are listed, exported, and the file is imported into
\* an empty store; ret is what that store then holds
ExportImport ==
    \E order \in NewestFirst(bookmarks) :
    \E listed \in {RowsToBookmarks(Start(NoFault), order, <<>>)} :
    \E c \in {ImportEntries(Ctx({}, {}, {}, 0, clock, NoFault),
                             ExportThenParse(listed.ret), NewImportResult)} :
        /\ NotImporting
        /\ bookmarks # {}
        /\ last' = Call("export_import", 0, <<>>, Absent, Absent, Absent,
                        Outcome(c), Views(c))
        /\ imp' = ImpIdle
        /\ UNCHANGED <<store, clock, hist, procs>>

(***************************************************************************)
(* Two processes on the same store, each making one add_bookmark call.  A  *)
(* step of a process is one `with self._db.connection()` block (one        *)
(* transaction of the engine); get_bookmark_by_id, which only reads, is    *)
(* taken as one step.                                                      *)
(***************************************************************************)
ConcUrls == {UrlBare, UrlUpper, UrlPath, UrlSsh}
\* None, ["P", "Q"]
ConcTagLists == {Absent, Some(<< <<"P">>, <<"Q">> >>)}

Running(q) == procs[q].pc \notin {"idle", "done"}

\* the call of process p ends: it returns (result "ok") or raises
Finish(frame, result) == [frame EXCEPT !.pc = "done", !.result = result]

\* process p has run one connection block, which left the context c; on an
\* exception the call ends, otherwise it goes on as `frame`
Advance(p, c, frame) ==
    /\ Commit(c)
    /\ procs' = [procs EXCEPT
                    ![p] = IF c.exc # OK THEN Finish(procs[p], c.exc) ELSE frame]
    /\ UNCHANGED <<clock, last, imp, hist>>

\* add_bookmark is called: normalized_url, normalized_tags are computed
ConcStart(p, url, tgs) ==
    /\ procs[p].pc = "idle"
    /\ \E n \in {_normalize_url(url)} :
         procs' = [q \in Procs |->
                      IF q # p THEN [procs[q] EXCEPT !.overlap = @ \/ Running(q)]
                      ELSE IF n = Invalid
                      THEN Finish([ProcIdle EXCEPT !.url = url], "InvalidURLError")
                      ELSE [ProcIdle EXCEPT
                               !.pc = "insert", !.url = url, !.normalized_url = n,
                               !.normalized_tags =
                                   _normalize_tags(IF tgs.given THEN tgs.val ELSE <<>>),
                               !.overlap = \E o \in Procs \ {p} : Running(o)]]
    /\ UNCHANGED <<store, clock, last, imp, hist>>

\* create_bookmark: the INSERT
ConcInsert(p) ==
    /\ procs[p].pc = "insert"
    /\ \E c \in {InsertBookmark(Start(NoFault), procs[p].normalized_url,
                                 _clean_title(procs[p].normalized_url), <<>>)} :
         Advance(p, c, [procs[p] EXCEPT !.pc = "get", !.bookmark_id = c.ret])

\* get_bookmark_by_id: at the end of create_bookmark ("get") and after the
\* tags were attached ("reget")
ConcGet(p) ==
    /\ procs[p].pc \in {"get", "reget"}
    /\ \E c \in {get_bookmark_by_id(Start(NoFault), procs[p].bookmark_id)} :
         Advance(p, c,
                 IF procs[p].pc = "get" /\ procs[p].normalized_tags # <<>>
                 THEN [procs[p] EXCEPT !.pc = "tag", !.rest = procs[p].normalized_tags]
                 ELSE Finish(procs[p], "ok"))

\* add_tags_to_bookmark: get_or_create_tag(name)
ConcTag(p) ==
    /\ procs[p].pc = "tag"
    /\ \E c \in {get_or_create_tag(Start(NoFault), Head(procs[p].rest))} :
         Advance(p, c, [procs[p] EXCEPT !.pc = "assoc", !.tag_id = c.ret])

\* add_tags_to_bookmark: the INSERT of the association
ConcAssoc(p) ==
    /\ procs[p].pc = "assoc"
    /\ \E c \in {InsertAssociation(Start(NoFault), procs[p].bookmark_id,
                                    procs[p].tag_id)} :
         Advance(p, c, [procs[p] EXCEPT
                           !.pc = IF Tail(procs[p].rest) = <<>> THEN "reget" ELSE "tag",
                           !.rest = Tail(@)])

(***************************************************************************)
(* Two processes on the same store, each making one repository call.  A    *)
(* step is one statement that is committed on its own: the connection is   *)
(* opened without a transaction, so the SELECT of get_or_create_tag reads   *)
(* the committed store and ends, and the INSERT that follows starts the    *)
(* transaction that the end of the `with` block commits.                   *)
(***************************************************************************)
\* set_tags_for_bookmark: DELETE FROM bookmark_tags WHERE bookmark_id = ?
DeleteAssociations(c, bookmark_id) ==
    IF Faulted(c) THEN DbFault(c)
    ELSE [Connected(c) EXCEPT !.bookmark_tags = {a \in @ : a[1] # bookmark_id},
                              !.ret = None]

\* get_or_create_tag: SELECT id FROM tags WHERE name = ?; ret is the id, or
\* 0 when there is no row
SelectTag(c, name) ==
    IF Faulted(c) THEN DbFault(c)
    ELSE [Connected(c) EXCEPT
             !.ret = IF \E t \in c.tags : t.name = name
                     THEN (CHOOSE t \in c.tags : t.name = name).id ELSE 0]

\* get_or_create_tag: INSERT INTO tags (name) VALUES (?); the name is the
\* key of a tag (tags.name UNIQUE)
InsertTag(c, name) ==
    IF \E t \in c.tags : t.name = name THEN Raise(c, "IntegrityError")
    ELSE [c EXCEPT !.tags = @ \cup {[id |-> NextTagId(c), name |-> name]},
                   !.ret = NextTagId(c)]

\* update_bookmark: UPDATE bookmarks SET title = ?, description = ? WHERE id = ?
UpdateRow(c, bookmark_id, new_title, new_desc) ==
    IF Faulted(c) THEN DbFault(c)
    ELSE LET c1 == Connected(c)
         IN  [c1 EXCEPT
                 !.bookmarks =
                     {IF r.id = bookmark_id
                      THEN TouchUpdatedAt(c1, [r EXCEPT !.title = new_title,
                                                        !.description = new_desc])
                      ELSE r : r \in @},
                 !.ret = None]

\* the calls are made for bookmarks that are stored
StoredBookmarkIds == {r.id : r \in bookmarks}

AllIdle == \A p \in Procs : procs[p].pc = "idle"

\* process p is called; the other process learns that it ran meanwhile
Called_By(p, frame) ==
    /\ procs[p].pc = "idle"
    /\ procs' = [q \in Procs |->
                    IF q # p THEN [procs[q] EXCEPT !.overlap = @ \/ Running(q)]
                    ELSE [frame EXCEPT !.overlap = \E o \in Procs \ {p} : Running(o)]]
    /\ UNCHANGED <<store, clock, last, imp, hist>>

\* what follows the tags handled so far in add_tags_to_bookmark
NextTag(frame, rest) ==
    IF rest = <<>> THEN Finish(frame, "ok") ELSE [frame EXCEPT !.pc = "select", !.rest = rest]

\* add_tags_to_bookmark(bookmark_id, tag_names) or
\* set_tags_for_bookmark(bookmark_id, tag_names) is called
TagsStart(p, op, bookmark_id, tag_names) ==
    Called_By(p, LET frame == [ProcIdle EXCEPT
                                  !.op = op, !.bookmark_id = bookmark_id,
                                  !.tag_names = tag_names,
                                  !.old = TagNamesOf(tags, bookmark_tags, bookmark_id)]
                 IN  IF op = "set_tags_for_bookmark" THEN [frame EXCEPT !.pc = "delete"]
                     ELSE NextTag(frame, tag_names))

\* set_tags_for_bookmark: the `with` block of the DELETE, then
\* `if tag_names: self.add_tags_to_bookmark(...)`
TagsDelete(p) ==
    /\ procs[p].pc = "delete"
    /\ \E c \in {DeleteAssociations(Start(NoFault), procs[p].bookmark_id)} :
         Advance(p, c, NextTag(procs[p], procs[p].tag_names))

\* get_or_create_tag: the SELECT and `if row: return row["id"]`
TagSelect(p) ==
    /\ procs[p].pc = "select"
    /\ \E c \in {SelectTag(Start(NoFault), Head(procs[p].rest))} :
         Advance(p, c, IF c.ret # 0 THEN [procs[p] EXCEPT !.pc = "link", !.tag_id = c.ret]
                       ELSE [procs[p] EXCEPT !.pc = "create"])

\* get_or_create_tag: the INSERT, committed when the block ends
TagInsert(p) ==
    /\ procs[p].pc = "create"
    /\ \E c \in {InsertTag(Start(NoFault), Head(procs[p].rest))} :
         /\ \A t \in c.tags : t.id <= MaxTagId
         /\ Advance(p, c, [procs[p] EXCEPT !.pc = "link", !.tag_id = c.ret])

\* add_tags_to_bookmark: INSERT OR IGNORE INTO bookmark_tags
TagLink(p) ==
    /\ procs[p].pc = "link"
    /\ \E c \in {InsertAssociation(Start(NoFault), procs[p].bookmark_id,
                                    procs[p].tag_id)} :
         Advance(p, c, NextTag(procs[p], Tail(procs[p].rest)))

\* get_bookmark(bookmark_id) in a process of its own: one read
Read(p, bookmark_id) ==
    \E c \in {get_bookmark(Start(NoFault), bookmark_id)} :
        /\ c.exc = OK
        /\ Called_By(p, Finish([ProcIdle EXCEPT !.op = "get_bookmark",
                                                !.bookmark_id = bookmark_id,
                                                !.seen = {c.ret}], "ok"))

\* update_bookmark(bookmark_id, title, description) is called
UpdateStart(p, bookmark_id, title, description) ==
    Called_By(p, [ProcIdle EXCEPT !.op = "update_bookmark", !.pc = "existing",
                                  !.bookmark_id = bookmark_id,
                                  !.title = title, !.description = description])

\* update_bookmark: existing = self.get_bookmark_by_id(bookmark_id), from
\* which new_title and new_desc are taken; and the get_bookmark_by_id that
\* ends the call
UpdateGet(p) ==
    /\ procs[p].pc \in {"existing", "updated"}
    /\ \E c \in {get_bookmark_by_id(Start(NoFault), procs[p].bookmark_id)} :
         Advance(p, c,
                 IF procs[p].pc = "updated" THEN Finish(procs[p], "ok")
                 ELSE [procs[p] EXCEPT
                          !.pc = "update",
                          !.new_title = IF procs[p].title.given
                                        THEN procs[p].title.val ELSE c.ret.title,
                          !.new_desc = IF procs[p].description.given
                                       THEN procs[p].description.val
                                       ELSE c.ret.description])

\* update_bookmark: the `with` block of the UPDATE
UpdateWrite(p) ==
    /\ procs[p].pc = "update"
    /\ \E c \in {UpdateRow(Start(NoFault), procs[p].bookmark_id,
                            procs[p].new_title, procs[p].new_desc)} :
         Advance(p, c, [procs[p] EXCEPT !.pc = "updated"])


(***************************************************************************)
(* Specifications                                                          *)
(***************************************************************************)
\* the service used by one caller on a healthy store
Next ==
    \/ \E url \in RawUrls, title \in AddTitles, description \in AddDescriptions,
          tgs \in AddTagLists :
           AddBookmark(url, title, description, tgs, NoFault)
    \/ \E bookmark_id \in BookmarkIds : GetBookmark(bookmark_id, NoFault)
    \/ \E bookmark_id \in BookmarkIds, tgs \in UpdateTagLists :
           UpdateBookmark(bookmark_id, Absent, Absent, tgs, NoFault)
    \/ \E bookmark_id \in BookmarkIds : DeleteBookmark(bookmark_id, NoFault)

Spec == Init /\ [][Next]_vars

\* updates with every combination of supplied fields
NextUpdate ==
    \/ \E url \in {UrlBare, UrlPath}, tgs \in AddTagLists :
           AddBookmark(url, <<>>, <<"d">>, tgs, NoFault)
    \/ \E bookmark_id \in BookmarkIds, title \in UpdateTitles,
          description \in UpdateDescriptions, tgs \in UpdateTagLists :
           UpdateBookmark(bookmark_id, title, description, tgs, NoFault)

SpecUpdate == Init /\ [][NextUpdate]_vars

\* the same with a running clock
NextClock ==
    \/ \E url \in {UrlBare, UrlPath} : AddBookmark(url, <<>>, <<>>, Absent, NoFault)
    \/ \E bookmark_id \in BookmarkIds, title \in UpdateTitles, tgs \in UpdateTagLists :
           UpdateBookmark(bookmark_id, title, Absent, tgs, NoFault)
    \/ \E bookmark_id \in BookmarkIds : DeleteBookmark(bookmark_id, NoFault)
    \/ Tick

SpecClock == Init /\ [][NextClock]_vars

\* the repository used directly, on a store that can fail
NextRepo ==
    \/ \E url \in {UrlBare, UrlPath} : AddBookmark(url, <<>>, <<>>, Absent, NoFault)
    \/ \E bookmark_id \in BookmarkIds, names \in RepoTagLists, fuel \in Fuels :
           RepoAddTags(bookmark_id, names, fuel)
    \/ \E bookmark_id \in BookmarkIds, names \in RepoTagLists, fuel \in Fuels :
           RepoSetTags(bookmark_id, names, fuel)
    \/ \E bookmark_id \in BookmarkIds, names \in RepoTagLists, fuel \in Fuels :
           RepoRemoveTags(bookmark_id, names, fuel)
    \/ \E name \in RepoTagNames, fuel \in Fuels : RepoDeleteTag(name, fuel)
    \/ \E bookmark_id \in BookmarkIds, fuel \in Fuels :
           RepoUpdateBookmark(bookmark_id, Some(<<"x">>), fuel)
    \/ \E bookmark_id \in BookmarkIds, fuel \in Fuels :
           RepoDeleteBookmark(bookmark_id, fuel)

SpecRepo == Init /\ [][NextRepo]_vars

\* imports on a store that can fail
NextImport ==
    \/ \E entries \in Files, default_tags \in DefaultTagLists :
           ImportStart(entries, default_tags)
    \/ \E fuel \in Fuels : ImportStep(fuel)
    \/ ImportReturn

SpecImport == Init /\ [][NextImport]_vars

\* tag filters: None, "", "P", " p ", " ", "q"
ListTagFilters ==
    {Absent, Some(<<>>), Some(<<"P">>), Some(<<" ", "p", " ">>), Some(<<" ">>),
     Some(<<"q">>)}
ListLimits == {-1, 1, DEFAULT_LIST_LIMIT, MAX_LIST_LIMIT + 1}
ListOffsets == {0, 1}
\* queries: "", " ", "E.C", " x", "zz", "_", "%"
SearchQueries ==
    {<<>>, <<" ">>, <<"E", ".", "C">>, <<" ", "x">>, <<"z", "z">>, <<"_">>, <<"%">>}
SearchLimits == {1, DEFAULT_LIST_LIMIT}

\* listing and searching a store that is added to while the clock runs
NextList ==
    \/ \E url \in {UrlBare, UrlPath, UrlUpper}, title \in AddTitles, tgs \in AddTagLists :
           AddBookmark(url, title, <<>>, tgs, NoFault)
    \/ Tick
    \/ \E query \in SearchQueries, limit \in SearchLimits, fuel \in {0, NoFault} :
           SearchBookmarks(query, limit, fuel)
    \/ \E tag \in ListTagFilters, limit \in ListLimits, offset \in ListOffsets :
           ListBookmarks(tag, limit, offset, NoFault)

SpecList == Init /\ [][NextList]_vars

\* raw URLs: a prefix from "", "http://", "HTTP://", "ftps://", "ssh://",
\* "http:", "//", then up to MaxUrlLen characters of "eE./:?# "
UrlPrefixes ==
    {<<>>, <<"h", "t", "t", "p", ":", "/", "/">>, <<"H", "T", "T", "P", ":", "/", "/">>,
     <<"f", "t", "p", "s", ":", "/", "/">>, <<"s", "s", "h", ":", "/", "/">>,
     <<"h", "t", "t", "p", ":">>, <<"/", "/">>}
UrlAlphabet == {"e", "E", ".", "/", ":", "?", "#", " "}
\* "not-a-url-at-all!!!" (tests/test_service.py)
UrlNotAUrl ==
    <<"n", "o", "t", "-", "a", "-", "u", "r", "l", "-", "a", "t", "-", "a", "l", "l",
      "!", "!", "!">>
UrlInputs ==
    {prefix \o body : prefix \in UrlPrefixes,
                      body \in UNION {[1..n -> UrlAlphabet] : n \in 0..MaxUrlLen}}
    \cup {UrlNotAUrl}

\* a raw URL is about to be handed to the service
InitNormalize ==
    /\ bookmarks = {}
    /\ tags = {}
    /\ bookmark_tags = {}
    /\ seq = 0
    /\ clock = 0
    /\ \E raw_url \in UrlInputs :
           last = Call("input", 0, raw_url, Absent, Absent, Absent, "ok", 0)
    /\ imp = ImpIdle
    /\ hist = NoHist
    /\ procs = [p \in Procs |-> ProcIdle]

\* the outcome of one _normalize_url call
Normalized(url) == IF url = Invalid THEN "InvalidURLError" ELSE "ok"

\* _normalize_url applied to the raw URL
NormalizeUrl ==
    /\ last.op = "input"
    /\ \E url \in {_normalize_url(last.url)} :
           last' = Call("_normalize_url", 0, last.url, Absent, Absent, Absent,
                        Normalized(url), url)
    /\ UNCHANGED <<bookmarks, tags, bookmark_tags, seq, clock, imp, hist, procs>>

\* _normalize_url applied to a URL it returned
NormalizeAgain ==
    /\ last.op = "_normalize_url" /\ last.result = "ok"
    /\ \E url \in {_normalize_url(last.ret)} :
           last' = Call("_normalize_url_again", 0, last.url, Absent, Absent, Absent,
                        Normalized(url), [once |-> last.ret, twice |-> url])
    /\ UNCHANGED <<bookmarks, tags, bookmark_tags, seq, clock, imp, hist, procs>>

\* add_bookmark called with the raw URL
AddInput ==
    /\ last.op = "input"
    /\ AddBookmark(last.url, <<>>, <<>>, Absent, NoFault)

NextNormalize == NormalizeUrl \/ NormalizeAgain \/ AddInput

SpecNormalize == InitNormalize /\ [][NextNormalize]_vars

\* a tag of MAX_TAG_LENGTH times "a" and one more character
LongTag(c) == [i \in 1..(MAX_TAG_LENGTH + 1) |-> IF i <= MAX_TAG_LENGTH THEN "a" ELSE c]

\* raw tags: "", " ", "Pa", "PA", " pa ", "q", "aa...ax", "aa...aq", and
\* "aa...a x" whose character number MAX_TAG_LENGTH is a space
TagPool ==
    {<<>>, <<" ">>, <<"P", "a">>, <<"P", "A">>, <<" ", "p", "a", " ">>, <<"q">>,
     LongTag("x"), LongTag("q"), [LongTag("x") EXCEPT ![MAX_TAG_LENGTH] = " "]}

\* ["Pa", "PA", " pa "]
TagsExample == << <<"P", "a">>, <<"P", "A">>, <<" ", "p", "a", " ">> >>

\* MAX_TAGS_PER_BOOKMARK distinct tags of one character, and one more
TagsMany ==
    [i \in 1..(MAX_TAGS_PER_BOOKMARK + 1) |->
        << <<"a", "c", "d", "e", "f", "h", "m", "o", "p", "q", "s", "t", "u", "x",
             "#", "+", "-", ".", "/", "1", "0">>[i] >>]

\* the same with blanks and repetitions in between
TagsManyMixed == << <<" ">>, <<"A">>, <<"a">> >> \o TagsMany \o << <<"0">> >>

TagListInputs ==
    SeqsUpTo(TagPool, MaxTagListLen) \cup {TagsExample, TagsMany, TagsManyMixed}

\* add_bookmark(url, tags=T): the call and the Bookmark it returned
AddTagged(url, tgs) ==
    \E c \in {add_bookmark(Start(NoFault), url, <<>>, <<>>, Some(tgs))} :
        /\ NotImporting
        /\ c.seq <= MaxId
        /\ Commit(c)
        /\ last' = Call("add_bookmark", 0, url, Some(<<>>), Some(<<>>), Some(tgs),
                        Outcome(c), IF c.exc = OK THEN c.ret ELSE None)
        /\ hist' = Issue(Returned(c))
        /\ imp' = ImpIdle
        /\ UNCHANGED <<clock, procs>>

\* a tag list is about to be handed to add_bookmark with "e.co"
InitTags ==
    /\ bookmarks = {}
    /\ tags = {}
    /\ bookmark_tags = {}
    /\ seq = 0
    /\ clock = 0
    /\ \E tgs \in TagListInputs :
           last = Call("input", 0, UrlBare, Absent, Absent, Some(tgs), "ok", 0)
    /\ imp = ImpIdle
    /\ hist = NoHist
    /\ procs = [p \in Procs |-> ProcIdle]

\* add_bookmark called with the tag list
AddInputTags ==
    /\ last.op = "input"
    /\ AddTagged(last.url, last.tags.val)

\* one more add_bookmark, when the store already holds tags
AddMoreTags(tgs) ==
    /\ last.op = "add_bookmark"
    /\ AddTagged(UrlPath, tgs)

NextTags ==
    \/ AddInputTags
    \/ \E tgs \in {TagsExample, TagsMany, <<LongTag("q"), <<"Q">> >>} : AddMoreTags(tgs)

SpecTags == InitTags /\ [][NextTags]_vars

\* an import file of one entry that carries MAX_TAGS_PER_BOOKMARK tags, one
\* of them longer than MAX_TAG_LENGTH
TagFiles ==
    {<< Entry(UrlBare, <<>>, <<>>,
              <<LongTag("x")>> \o SubSeq(TagsMany, 1, MAX_TAGS_PER_BOOKMARK - 1)) >>}

\* adding, updating, deleting and importing with many and long tags
NextCap ==
    \/ \E tgs \in {TagsManyMixed, <<LongTag("x"), LongTag("q")>>} :
           AddTagged(UrlBare, tgs)
    \/ \E bookmark_id \in BookmarkIds, tgs \in {<<>>, TagsMany, <<LongTag("q")>>} :
           UpdateBookmark(bookmark_id, Absent, Absent, Some(tgs), NoFault)
    \/ \E bookmark_id \in BookmarkIds : DeleteBookmark(bookmark_id, NoFault)
    \/ \E entries \in TagFiles, default_tags \in {Absent, Some(<< <<"0">> >>)} :
           seq < MaxId /\ ImportStart(entries, default_tags)
    \/ ImportStep(NoFault)
    \/ ImportReturn

SpecCap == Init /\ [][NextCap]_vars

\* titles "x", "a&<", descriptions "", "d>\"", tag lists None, ["p,q"],
\* ["P", "q&"]
ExchangeTitles == {<<"x">>, <<"a", "&", "<">>}
ExchangeDescriptions == {<<>>, <<"d", ">", "\"">>}
ExchangeTagLists == {Absent, Some(<< <<"p", ",", "q">> >>), Some(<< <<"P">>, <<"q", "&">> >>)}

\* a store is filled, titles are emptied, and the store is exported and
\* imported again
NextExchange ==
    \/ \E url \in {UrlBare, UrlPath}, title \in ExchangeTitles,
          description \in ExchangeDescriptions, tgs \in ExchangeTagLists :
           AddBookmark(url, title, description, tgs, NoFault)
    \/ \E bookmark_id \in BookmarkIds :
           UpdateBookmark(bookmark_id, Some(<<>>), Absent, Absent, NoFault)
    \/ ExportImport

SpecExchange == Init /\ [][NextExchange]_vars

\* two processes adding at the same time
NextConc ==
    \/ \E p \in Procs, url \in ConcUrls, tgs \in ConcTagLists : ConcStart(p, url, tgs)
    \/ \E p \in Procs : ConcInsert(p)
    \/ \E p \in Procs : ConcGet(p)
    \/ \E p \in Procs : ConcTag(p)
    \/ \E p \in Procs : ConcAssoc(p)

\* tags attached and removed on a store that can fail while attaching
NextAttach ==
    \/ \E url \in {UrlBare, UrlPath} : AddBookmark(url, <<>>, <<>>, Absent, NoFault)
    \/ \E bookmark_id \in BookmarkIds, names \in RepoTagLists, fuel \in Fuels :
           RepoAddTags(bookmark_id, names, fuel)
    \/ \E bookmark_id \in BookmarkIds, names \in RepoTagLists :
           RepoRemoveTags(bookmark_id, names, NoFault)
    \/ \E name \in RepoTagNames : RepoDeleteTag(name, NoFault)

SpecAttach == Init /\ [][NextAttach]_vars

\* add_bookmark on a store that can fail at any connection block of the call
NextFault ==
    \/ \E url \in {UrlBare, UrlPath}, tgs \in ConcTagLists, fuel \in Fuels :
           AddBookmark(url, <<>>, <<>>, tgs, fuel)
    \/ \E bookmark_id \in BookmarkIds : GetBookmark(bookmark_id, NoFault)
    \/ \E bookmark_id \in BookmarkIds : DeleteBookmark(bookmark_id, NoFault)

SpecFault == Init /\ [][NextFault]_vars

SpecConc == Init /\ [][NextConc]_vars

\* two bookmarks, then one repository call of each of the two processes
SharedTagLists == {<< <<"s">> >>, << <<"q">>, <<"s">> >>}
SharedTitles == {Absent, Some(<<"x">>)}
SharedDescriptions == {Absent, Some(<<"d">>)}

NextShared ==
    \/ /\ AllIdle
       /\ \E url \in {UrlBare, UrlPath}, tgs \in ConcTagLists :
              AddBookmark(url, <<"t">>, <<"e">>, tgs, NoFault)
    \/ \E p \in Procs, bookmark_id \in StoredBookmarkIds, tag_names \in SharedTagLists,
          op \in {"add_tags_to_bookmark", "set_tags_for_bookmark"} :
           TagsStart(p, op, bookmark_id, tag_names)
    \/ \E p \in Procs : TagsDelete(p)
    \/ \E p \in Procs : TagSelect(p)
    \/ \E p \in Procs : TagInsert(p)
    \/ \E p \in Procs : TagLink(p)
    \/ \E p \in Procs, bookmark_id \in StoredBookmarkIds : Read(p, bookmark_id)
    \/ \E p \in Procs, bookmark_id \in StoredBookmarkIds,
          title \in SharedTitles, description \in SharedDescriptions :
           UpdateStart(p, bookmark_id, title, description)
    \/ \E p \in Procs : UpdateGet(p)
    \/ \E p \in Procs : UpdateWrite(p)

SpecShared == Init /\ [][NextShared]_vars

(***************************************************************************)
(* Properties                                                              *)
(***************************************************************************)
\* the step is a call of `op` (not a clock tick, not the return of an import)
Called(op) ==
    /\ last'.op = op
    /\ clock' = clock
    /\ ~(imp.status = "running" /\ imp'.status = "returned")

Tables == <<bookmarks, tags, bookmark_tags>>

TagsOf(bookmark_id) == TagNamesOf(tags, bookmark_tags, bookmark_id)
StoredIds == {r.id : r \in bookmarks}
Row(bookmark_id) == CHOOSE r \in bookmarks : r.id = bookmark_id

\* "https://e.co", the canonical form the scenario of the specification gives
ExampleCanonical == <<"h", "t", "t", "p", "s", ":", "/", "/", "e", ".", "c", "o">>

\* C1: no two stored bookmarks have the same canonical URL; an add_bookmark
\* whose normalized URL is already stored raises DuplicateBookmarkError and
\* creates nothing, in particular "HTTPS://E.co/" after "e.co".
C1_UniqueCanonicalUrl ==
    /\ [](\A a, b \in bookmarks : a.url = b.url => a = b)
    /\ [][(/\ Called("add_bookmark")
           /\ \/ \E r \in bookmarks : r.url = _normalize_url(last'.url)
              \/ /\ last'.url \in {UrlBare, UrlUpper}
                 /\ \E r \in bookmarks : r.url = ExampleCanonical)
          => /\ last'.result = "DuplicateBookmarkError"
             /\ UNCHANGED Tables]_vars

C1_Witness ==
    /\ last.op = "add_bookmark"
    /\ last.url = UrlUpper
    /\ last.result = "DuplicateBookmarkError"
    /\ \E r \in bookmarks : r.url = ExampleCanonical

\* C2: a repository operation that fails leaves bookmarks, tags and
\* associations exactly as they were before the call.
C2_RepoAllOrNothing ==
    [][(/\ last'.op \in {"add_tags_to_bookmark", "set_tags_for_bookmark",
                         "remove_tags_from_bookmark", "repo_update_bookmark",
                         "repo_delete_bookmark", "delete_tag"}
        /\ last'.result # "ok")
       => UNCHANGED Tables]_vars

\* an import step is about to run
ImportStepping == imp.status = "running" /\ imp.idx <= Len(imp.entries)

\* C3: each entry handed to import_bookmark records exactly one outcome:
\* success increments imported, a duplicate increments skipped without a
\* failure message, an invalid URL appends exactly one failure message; so a
\* returned import has imported = number of new URLs, skipped = number of
\* other valid entries, failures = number of invalid entries.
C3_ImportOutcome ==
    /\ [][ImportStepping =>
            LET r == imp.result
                n == imp'.result
                o == last'.result
                u == _normalize_url(imp.entries[imp.idx].url)
            IN  /\ o = "ok" => /\ n.imported = r.imported + 1
                               /\ n.skipped = r.skipped
                               /\ n.errors = r.errors
                /\ o = "DuplicateBookmarkError" => /\ n.skipped = r.skipped + 1
                                                   /\ n.imported = r.imported
                                                   /\ n.errors = r.errors
                /\ o = "InvalidURLError" => /\ Len(n.errors) = Len(r.errors) + 1
                                            /\ n.imported = r.imported
                                            /\ n.skipped = r.skipped
                /\ (\E b \in bookmarks : b.url = u)
                       => o \in {"DuplicateBookmarkError", "DatabaseError"}
                /\ u = Invalid => o = "InvalidURLError"]_vars
    /\ [](imp.status = "returned" =>
            LET valid == ValidEntries(imp.entries)
                new   == {_normalize_url(imp.entries[i].url) : i \in valid} \ imp.before
            IN  /\ imp.result.imported = Cardinality(new)
                /\ imp.result.skipped = Cardinality(valid) - Cardinality(new)
                /\ Len(imp.result.errors) = Len(imp.entries) - Cardinality(valid))

C3_Witness ==
    /\ imp.status = "returned"
    /\ Len(imp.entries) = 2
    /\ Cardinality(imp.before) = 1
    /\ imp.result.imported = 1
    /\ imp.result.skipped = 1
    /\ imp.result.errors = <<>>

\* C4: an error of add_bookmark other than DuplicateBookmarkError or
\* InvalidURLError aborts the import: nothing is recorded for the entry, no
\* later entry is attempted, and the bookmarks stored so far remain.
C4_FaultAbortsImport ==
    /\ [][(/\ ImportStepping
           /\ last'.result \notin {"ok", "DuplicateBookmarkError", "InvalidURLError"})
          => /\ imp'.status = "aborted"
             /\ imp'.result = imp.result
             /\ bookmarks \subseteq bookmarks']_vars
    /\ [][imp.status = "aborted" => last'.op # "import_bookmark"]_vars

C4_Witness ==
    /\ imp.status = "aborted"
    /\ imp.idx = 2
    /\ imp.result.imported = 1
    /\ last.op = "import_bookmark"
    /\ last.result = "DatabaseError"
    /\ \E b \in bookmarks : b.url = _normalize_url(imp.entries[1].url)

\* C5: a successful update_bookmark changes only the supplied fields; tags
\* supplied (even empty) replace the tag set, tags omitted leave it; no
\* other bookmark changes.
C5_UpdateChangesOnlySupplied ==
    [][(Called("update_bookmark") /\ last'.result = "ok") =>
        LET id      == last'.id
            old     == Row(id)
            new     == CHOOSE r \in bookmarks' : r.id = id
            newTags == TagNamesOf(tags', bookmark_tags', id)
        IN  /\ new.title = IF last'.title.given
                           THEN StrStrip(last'.title.val) ELSE old.title
            /\ new.description = IF last'.description.given
                                 THEN StrStrip(last'.description.val)
                                 ELSE old.description
            /\ newTags = IF last'.tags.given
                         THEN {_normalize_single_tag(t) : t \in Range(last'.tags.val)}
                                  \ {<<>>}
                         ELSE TagsOf(id)
            /\ new.url = old.url
            /\ new.created_at = old.created_at
            /\ {r.id : r \in bookmarks'} = StoredIds
            /\ \A r \in bookmarks : r.id # id =>
                   /\ r \in bookmarks'
                   /\ TagNamesOf(tags', bookmark_tags', r.id) = TagsOf(r.id)]_vars

C5_Witness ==
    /\ last.op = "update_bookmark"
    /\ last.result = "ok"
    /\ ~last.title.given
    /\ last.tags = Some(<< <<"Q">> >>)
    /\ hist.issued = {last.id}
    /\ TagsOf(last.id) = {<<"q">>}
    /\ \E t \in tags : t.name = <<"p">>

\* the count list_tags reports for a name (0 when the name is not listed)
CountOf(listing, name) ==
    IF \E tc \in listing : tc.name = name
    THEN (CHOOSE tc \in listing : tc.name = name).count
    ELSE 0

\* C6: after a successful delete_bookmark no association of the bookmark
\* remains, list_tags reports one less for every tag it carried, and the
\* other counts and the other bookmarks' tag sets are unchanged.
C6_DeleteCascades ==
    [][(Called("delete_bookmark") /\ last'.result = "ok") =>
        LET id      == last'.id
            carried == TagsOf(id)
            pre     == list_tags(tags, bookmark_tags)
            post    == list_tags(tags', bookmark_tags')
        IN  /\ \A a \in bookmark_tags' : a[1] # id
            /\ \A t \in tags :
                   CountOf(post, t.name) =
                       CountOf(pre, t.name) - (IF t.name \in carried THEN 1 ELSE 0)
            /\ \A r \in bookmarks : r.id # id =>
                   /\ r \in bookmarks'
                   /\ TagNamesOf(tags', bookmark_tags', r.id) = TagsOf(r.id)]_vars

C6_Witness ==
    /\ last.op = "delete_bookmark"
    /\ last.result = "ok"
    /\ hist.issued = {1, 2}
    /\ hist.deleted = {1}
    /\ TagsOf(2) = {<<"p">>}
    /\ \E t \in tags : t.name = <<"q">> /\ TagUsage(bookmark_tags, t.id) = 0

\* C7: list_tags returns exactly the tags carried by at least one bookmark,
\* each with the number of bookmarks carrying it.
C7_ListTagsOnlyUsed ==
    list_tags(tags, bookmark_tags) =
        { [name |-> n, count |-> Cardinality({r \in bookmarks : n \in TagsOf(r.id)})] :
              n \in UNION {TagsOf(r.id) : r \in bookmarks} }

\* C8: every successful add returns an id greater than every id returned
\* before, also the deleted ones, and a deleted id stays not found.
C8_IdsIncreaseNeverReused ==
    /\ [][(Called("add_bookmark") /\ last'.result = "ok")
          => \A i \in hist.issued \cup hist.deleted : last'.ret > i]_vars
    /\ [](\A i \in hist.deleted :
              get_bookmark(Start(NoFault), i).exc = "BookmarkNotFoundError")

C8_Witness ==
    /\ last.op = "add_bookmark"
    /\ last.result = "ok"
    /\ last.ret = 2
    /\ hist.deleted = {1}
    /\ StoredIds = {2}

\* C9: get_bookmark, update_bookmark and delete_bookmark with an id that
\* names no stored bookmark raise BookmarkNotFoundError and change nothing.
C9_NotFoundLeavesStore ==
    [][(/\ \/ Called("get_bookmark")
           \/ Called("update_bookmark")
           \/ Called("delete_bookmark")
        /\ last'.id \notin StoredIds)
       => /\ last'.result = "BookmarkNotFoundError"
          /\ UNCHANGED Tables]_vars

C9_Witness ==
    /\ last.op = "update_bookmark"
    /\ last.tags = Some(<< <<"Q">> >>)
    /\ last.result = "BookmarkNotFoundError"
    /\ last.id \notin StoredIds
    /\ bookmarks # {}

RepositoryErrors ==
    {"DatabaseError", "DuplicateBookmarkError", "BookmarkNotFoundError",
     "TagNotFoundError"}

\* C11: a repository call that fails ends with an error of the package, a
\* storage fault or constraint violation (other than the duplicate URL) with
\* DatabaseError; attaching a tag to a bookmark id that does not exist is such
\* a violation.
C11_StorageFaultIsDatabaseError ==
    /\ last.op \in {"add_tags_to_bookmark", "set_tags_for_bookmark",
                    "remove_tags_from_bookmark", "repo_update_bookmark",
                    "repo_delete_bookmark", "delete_tag"}
       => last.result \in {"ok"} \cup RepositoryErrors
    /\ (last.op = "add_tags_to_bookmark" /\ last.id \notin StoredIds
            /\ last.result # "ok")
       => last.result = "DatabaseError"

\* C12: of two add_bookmark calls for the same canonical URL made by two
\* processes, in any interleaving of their connection blocks, exactly one
\* succeeds and the other raises DuplicateBookmarkError; exactly one
\* bookmark with that URL is stored then, and never more than one.
C12_ConcurrentAddOneWins ==
    /\ \A a, b \in bookmarks : a.url = b.url => a = b
    /\ \A p, q \in Procs :
           (/\ p # q
            /\ procs[p].pc = "done"
            /\ procs[q].pc = "done"
            /\ procs[p].normalized_url # <<>>
            /\ procs[p].normalized_url = procs[q].normalized_url)
           => /\ {procs[p].result, procs[q].result} = {"ok", "DuplicateBookmarkError"}
              /\ Cardinality({r \in bookmarks : r.url = procs[p].normalized_url}) = 1

C12_Witness ==
    /\ procs[1].pc = "done"
    /\ procs[2].pc = "done"
    /\ procs[1].overlap
    /\ procs[1].url = UrlBare
    /\ procs[2].url = UrlUpper
    /\ procs[1].result = "DuplicateBookmarkError"
    /\ procs[2].result = "ok"
    /\ procs[2].normalized_tags # <<>>
    /\ TagsOf(procs[2].bookmark_id) = {<<"p">>, <<"q">>}

\* the ids of the bookmarks a listing returned, in order
ListedIds == [i \in 1..Len(last.ret.rows) |-> last.ret.rows[i].id]

\* C13: list_bookmarks returns the bookmarks most recently created first:
\* of two returned bookmarks the one added later (the greater id) comes
\* first, also when both were added within the same second.
C13_ListNewestFirst ==
    last.op = "list_bookmarks" =>
        \A i, j \in 1..Len(last.ret.rows) : i < j => ListedIds[i] > ListedIds[j]

\* C14: a list_bookmarks call with a non-empty tag filter, taken before
\* pagination (offset 0, the default limit above the size of the store),
\* returns exactly the stored bookmarks whose tag set holds the normalized
\* filter: none when the filter normalizes to the empty string or names no
\* stored tag.
C14_TagFilterExact ==
    (/\ last.op = "list_bookmarks"
     /\ last.tags.given /\ last.tags.val # <<>>
     /\ last.ret.offset = 0 /\ last.ret.limit = DEFAULT_LIST_LIMIT)
    => {ListedIds[i] : i \in DOMAIN ListedIds}
         = {id \in StoredIds : _normalize_single_tag(last.tags.val) \in TagsOf(id)}

\* the same for the filters that do not normalize to the empty string
C14_NonBlankFilterExact ==
    (last.op = "list_bookmarks" /\ _normalize_single_tag(last.tags.val) # <<>>)
    => C14_TagFilterExact

\* C15: the limit of a list_bookmarks call is clamped to 0..MAX_LIST_LIMIT
\* before the query runs with it, and the call returns no more bookmarks
\* than the clamped limit.
C15_LimitClamped ==
    last.op = "list_bookmarks" =>
        /\ ListLimit(last.ret.limit) \in 0..MAX_LIST_LIMIT
        /\ Len(last.ret.rows) <= ListLimit(last.ret.limit)

\* q occurs in text as a literal substring, letters compared without regard
\* to case
Occurs(q, text) ==
    \E i \in 1..(Len(text) - Len(q) + 1) :
        StrLower(SubSeq(text, i, i + Len(q) - 1)) = StrLower(q)

\* the ids of the stored bookmarks in whose URL, title or description q occurs
LiteralMatches(q) ==
    {r.id : r \in {b \in bookmarks :
        Occurs(q, b.url) \/ Occurs(q, b.title) \/ Occurs(q, b.description)}}

\* what C16 asks of a finished search_bookmarks call
SearchExact ==
    IF StrStrip(last.ret.query) = <<>>
    THEN last.result = "ok" /\ last.ret.rows = <<>>
    ELSE last.result = "ok" =>
        Let([found \in {LiteralMatches(StrStrip(last.ret.query))} |->
            /\ {ListedIds[i] : i \in DOMAIN ListedIds} \subseteq found
            /\ Len(ListedIds) = IF Cardinality(found) < last.ret.limit
                                THEN Cardinality(found) ELSE last.ret.limit
            /\ \A i, j \in DOMAIN ListedIds : i < j =>
                   last.ret.rows[i].created_at >= last.ret.rows[j].created_at])

\* C16: search_bookmarks with a non-blank q returns exactly the stored
\* bookmarks, up to limit and newest first, in which the trimmed q occurs
\* literally (also its '%' and '_') and without regard to case in the URL,
\* the title or the description; a blank q returns the empty list even when
\* the store cannot be reached.
C16_SearchLiteralSubstring ==
    last.op = "search_bookmarks" => SearchExact

\* the same for the queries that hold neither '%' nor '_'
C16_PlainQueryExact ==
    (/\ last.op = "search_bookmarks"
     /\ \A i \in DOMAIN last.ret.query : last.ret.query[i] \notin {"%", "_"})
    => SearchExact

\* C17: normalizing a URL that _normalize_url returned succeeds and gives the
\* same URL, and every stored URL is such a fixed point of _normalize_url.
C17_NormalizeIdempotent ==
    /\ last.op = "_normalize_url_again" =>
           last.result = "ok" /\ last.ret.twice = last.ret.once
    /\ \A r \in bookmarks : _normalize_url(r.url) = r.url

\* the raw URL is empty after trimming, or is written with a scheme that is
\* not accepted, or with a scheme and no host
EmptySchemeOrHost(raw_url) ==
    Let([url \in {StrStrip(raw_url)} |->
        \/ url = <<>>
        \/ /\ HasSchemePrefix(url)
           /\ \/ urlparse(url).scheme \notin ACCEPTED_SCHEMES
              \/ urlparse(url).netloc = <<>>])

\* add_bookmark was called with raw URL u, raised InvalidURLError and left
\* the three tables as they were
RejectedUrl ==
    last'.result = "InvalidURLError" /\ UNCHANGED Tables

\* C18: add_bookmark raises InvalidURLError and stores nothing when the raw
\* URL is empty after trimming, has a scheme that is not accepted, has no
\* host, or is not a URL at all, as "not-a-url-at-all!!!".
C18_InvalidUrlRejected ==
    [][(Called("add_bookmark") /\ last.op = "input"
        /\ (EmptySchemeOrHost(last'.url) \/ last'.url = UrlNotAUrl))
       => RejectedUrl]_vars

\* the same without the strings that are not URLs at all
C18_EmptySchemeOrHostRejected ==
    [][(Called("add_bookmark") /\ last.op = "input" /\ EmptySchemeOrHost(last'.url))
       => RejectedUrl]_vars

\* the distinct non-empty values got by trimming, lowercasing and truncating
\* each element of the tag list T
CanonicalTags(T) ==
    {Truncate(StrLower(StrStrip(T[i])), MAX_TAG_LENGTH) : i \in DOMAIN T} \ {<<>>}

\* add_bookmark(url, tags=T) returned a bookmark
AddedWithTags == last.op = "add_bookmark" /\ last.tags.given /\ last.result = "ok"

\* the statement of C19 as it is written: the returned tag set is exactly
\* the set of canonical values, however many they are
C19_TagsExactlyCanonical ==
    AddedWithTags => last.ret.tags = CanonicalTags(last.tags.val)

\* C19: the tag set of the bookmark returned by add_bookmark(url, tags=T) is
\* exactly the set of distinct non-empty values got by trimming, lowercasing
\* and truncating each element of T when these are at most
\* MAX_TAGS_PER_BOOKMARK, and MAX_TAGS_PER_BOOKMARK of them otherwise; tags
\* that differ in case or surrounding whitespace collapse to one and blank
\* tags are dropped without error.
C19_TagsCanonicalUpToCap ==
    /\ (last.op = "add_bookmark" /\ last.tags.given /\ last.url \in {UrlBare, UrlPath})
        => last.result \in {"ok", "DuplicateBookmarkError"}
    /\ AddedWithTags =>
        Let([canonical \in {CanonicalTags(last.tags.val)} |->
            /\ last.ret.tags \subseteq canonical
            /\ Cardinality(last.ret.tags) =
                   IF Cardinality(canonical) <= MAX_TAGS_PER_BOOKMARK
                   THEN Cardinality(canonical) ELSE MAX_TAGS_PER_BOOKMARK])

C19_Witness ==
    /\ AddedWithTags
    /\ last.tags.val = TagsExample
    /\ last.ret.tags = {<<"p", "a">>}

\* the name of a stored tag
TagName(tag_id) == (CHOOSE t \in tags : t.id = tag_id).name

\* the bookmark a finished add_bookmark, update_bookmark or import_bookmark
\* call returned
ReturnedId == IF last.op = "add_bookmark" THEN last.ret.id ELSE last.ret

\* C20: every stored bookmark has no two tags of the same name, no tag name
\* longer than MAX_TAG_LENGTH and at most MAX_TAGS_PER_BOOKMARK tags; an
\* add_bookmark, update_bookmark or import call given more distinct tags
\* than the cap does not fail for it and leaves the bookmark with
\* MAX_TAGS_PER_BOOKMARK tags.
C20_TagSetBounded ==
    /\ \A pair, other \in bookmark_tags :
           (pair[1] = other[1] /\ pair # other) => TagName(pair[2]) # TagName(other[2])
    /\ \A r \in bookmarks :
           /\ \A name \in TagsOf(r.id) : Len(name) <= MAX_TAG_LENGTH
           /\ Cardinality({pair \in bookmark_tags : pair[1] = r.id})
                  <= MAX_TAGS_PER_BOOKMARK
    /\ (/\ last.op \in {"add_bookmark", "update_bookmark", "import_bookmark"}
        /\ last.tags.given
        /\ Cardinality(CanonicalTags(last.tags.val)) > MAX_TAGS_PER_BOOKMARK)
       => /\ last.result \in {"ok", "DuplicateBookmarkError", "BookmarkNotFoundError"}
          /\ last.result = "ok" =>
                 Cardinality(TagsOf(ReturnedId)) = MAX_TAGS_PER_BOOKMARK

C20_Witness ==
    /\ last.op = "import_bookmark" /\ last.result = "ok"
    /\ Cardinality(CanonicalTags(last.tags.val)) > MAX_TAGS_PER_BOOKMARK
    /\ Cardinality(TagsOf(last.ret)) = MAX_TAGS_PER_BOOKMARK
    /\ \E r \in bookmarks : \E name \in TagsOf(r.id) : Len(name) = MAX_TAG_LENGTH

\* a tag name in canonical form: lowercase, trimmed, non-empty, length-bounded
CanonicalName(name) ==
    /\ name # <<>>
    /\ StrLower(name) = name
    /\ StrStrip(name) = name
    /\ Len(name) <= MAX_TAG_LENGTH

\* C21: every stored tag name is in canonical form, and normalizing it
\* again returns it unchanged.
C21_StoredTagsCanonical ==
    \A t \in tags : CanonicalName(t.name) /\ _normalize_single_tag(t.name) = t.name

\* the row of bookmark `bookmark_id` after the step
RowAfter(bookmark_id) == CHOOSE r \in bookmarks' : r.id = bookmark_id

\* the step is an add_bookmark or update_bookmark that returned, and every
\* title and description it was given is stored trimmed and truncated
StoredAsCleaned ==
    (last'.op \in {"add_bookmark", "update_bookmark"} /\ clock' = clock
     /\ last'.result = "ok") =>
        /\ last'.title.given =>
               RowAfter(last'.ret).title
                   = Truncate(StrStrip(last'.title.val), MAX_TITLE_LENGTH)
        /\ last'.description.given =>
               RowAfter(last'.ret).description
                   = Truncate(StrStrip(last'.description.val), MAX_DESCRIPTION_LENGTH)

\* C22: add_bookmark and update_bookmark store the title and the description
\* they are given trimmed and truncated and not changed otherwise; an empty
\* title is stored as the empty string.
C22_TitleDescriptionStored == [][StoredAsCleaned]_vars

\* the same for the calls that are not given an empty title
C22_NonEmptyTitleStored ==
    [][(last'.title.given => last'.title.val # <<>>) => StoredAsCleaned]_vars

\* the imported store holds the stored URLs, each with the stored title and
\* tag set and, when it is not empty, the stored description
SameAfterRoundTrip ==
    /\ last.result = "ok"
    /\ {v.url : v \in last.ret} = {r.url : r \in bookmarks}
    /\ \A r \in bookmarks : \E v \in last.ret :
           /\ v.url = r.url
           /\ v.title = r.title
           /\ v.tags = TagsOf(r.id)
           /\ r.description # <<>> => v.description = r.description

\* C23: exporting the stored bookmarks and importing the file into an empty
\* store gives the same URLs with the same titles, tag sets and non-empty
\* descriptions, also for empty titles and for values that hold & < > " or
\* a comma.
C23_ExportImportRoundTrip ==
    last.op = "export_import" => SameAfterRoundTrip

\* the same when no stored title is empty and no stored tag holds a comma
C23_PlainRoundTrip ==
    (/\ last.op = "export_import"
     /\ \A r \in bookmarks : r.title # <<>>
     /\ \A t \in tags : \A i \in DOMAIN t.name : t.name[i] # ",")
    => SameAfterRoundTrip


\* the tag names a list of names holds
Names(tag_names) == {tag_names[i] : i \in 1..Len(tag_names)}

\* process q read the bookmark whose non-empty tag set process p was
\* replacing by another non-empty set
ReadWhileReplaced(p, q) ==
    /\ procs[p].op = "set_tags_for_bookmark"
    /\ procs[p].pc # "idle"
    /\ procs[p].old # {}
    /\ procs[p].tag_names # <<>>
    /\ procs[q].op = "get_bookmark"
    /\ procs[q].pc = "done"
    /\ procs[q].overlap
    /\ procs[q].bookmark_id = procs[p].bookmark_id

\* C24: while set_tags_for_bookmark replaces a non-empty tag set by another
\* non-empty tag set, a get_bookmark of another process returns the
\* bookmark with the complete old set or with the complete new set, never
\* with an empty or partly installed one.
C24_ReplaceAtomic ==
    \A p, q \in Procs :
        ReadWhileReplaced(p, q) =>
            \A b \in procs[q].seen : b.tags \in {procs[p].old, Names(procs[p].tag_names)}

\* the replacement alone: when set_tags_for_bookmark has returned and no
\* other call ran meanwhile, the bookmark carries exactly the new names
C24_ReplacedWhenDone ==
    \A p \in Procs :
        (/\ procs[p].op = "set_tags_for_bookmark"
         /\ procs[p].pc = "done"
         /\ procs[p].result = "ok"
         /\ \A q \in Procs \ {p} : procs[q].pc = "idle")
        => TagsOf(procs[p].bookmark_id) = Names(procs[p].tag_names)

TablesOf(c) == <<c.bookmarks, c.tags, c.bookmark_tags>>

\* add_tags_to_bookmark(bookmark_id, tag_names) on the store as it is, and
\* once more after that: no error, and the second call changes nothing
TwiceIsOnce(bookmark_id, tag_names) ==
    Let([once \in {add_tags_to_bookmark(Start(NoFault), bookmark_id, tag_names)} |->
        Let([twice \in {add_tags_to_bookmark(once, bookmark_id, tag_names)} |->
            /\ once.exc = OK
            /\ twice.exc = OK
            /\ TablesOf(twice) = TablesOf(once)
            /\ Names(tag_names) \subseteq TagsOf(bookmark_id) => TablesOf(once) = Tables])])

\* the step attaches, to a stored bookmark, only names it carries already
Reattached ==
    /\ Called("add_tags_to_bookmark")
    /\ last'.id \in StoredIds
    /\ Names(last'.tags.val) \subseteq TagsOf(last'.id)

\* C25: add_tags_to_bookmark is idempotent and creates no duplicate: there
\* is at most one tag row per name and one association per (bookmark, tag)
\* pair in every state; attaching names a bookmark carries already changes
\* nothing and raises no error of its own; and calling it twice with the
\* same names leaves the state one call leaves.
C25_AddTagsIdempotent ==
    /\ [](\A t, u \in tags : t.name = u.name => t = u)
    /\ [](\A bookmark_id \in StoredIds, tag_names \in RepoTagLists :
              TwiceIsOnce(bookmark_id, tag_names))
    /\ [][Reattached => /\ UNCHANGED Tables
                        /\ last'.result \in {"ok", "DatabaseError"}]_vars

C25_Witness ==
    /\ last.op = "add_tags_to_bookmark"
    /\ last.result = "ok"
    /\ last.tags.val = << <<"p">>, <<"q">> >>
    /\ Cardinality(tags) = 2
    /\ Cardinality(bookmark_tags) = 4
    /\ TagsOf(last.id) = {<<"p">>, <<"q">>}

\* a tag name no bookmark is added with: no tag row has it before the
\* processes are called
NewName == <<"s">>

\* processes p and q attached NewName to two different bookmarks, and their
\* calls ran at the same time
AttachedConcurrently(p, q) ==
    /\ p # q
    /\ procs[p].op = "add_tags_to_bookmark"
    /\ procs[q].op = "add_tags_to_bookmark"
    /\ procs[p].pc = "done"
    /\ procs[q].pc = "done"
    /\ procs[p].overlap
    /\ procs[p].bookmark_id # procs[q].bookmark_id
    /\ NewName \in Names(procs[p].tag_names)
    /\ NewName \in Names(procs[q].tag_names)

\* C26: when two processes attach the same tag name, which no tag row has
\* yet, to two different bookmarks at the same time, in any interleaving of
\* the SELECT and INSERT steps of get_or_create_tag, both calls succeed,
\* exactly one tag row has the name afterwards and both bookmarks carry it.
C26_ConcurrentAttachBothSucceed ==
    \A p, q \in Procs :
        AttachedConcurrently(p, q) =>
            /\ procs[p].result = "ok"
            /\ procs[q].result = "ok"
            /\ Cardinality({t \in tags : t.name = NewName}) = 1
            /\ NewName \in TagsOf(procs[p].bookmark_id)
            /\ NewName \in TagsOf(procs[q].bookmark_id)

\* what does hold: never two tag rows with the name, and a call that has
\* returned normally has attached it
C26_OneRowAndAttachedIfOk ==
    /\ Cardinality({t \in tags : t.name = NewName}) <= 1
    /\ \A p, q \in Procs :
           (AttachedConcurrently(p, q) /\ procs[p].result = "ok")
           => NewName \in TagsOf(procs[p].bookmark_id)

\* processes p and q updated the same bookmark at the same time, p its
\* title only and q its description only, and both have returned
UpdatedConcurrently(p, q) ==
    /\ procs[p].op = "update_bookmark"
    /\ procs[q].op = "update_bookmark"
    /\ procs[p].pc = "done"
    /\ procs[q].pc = "done"
    /\ procs[p].result = "ok"
    /\ procs[q].result = "ok"
    /\ procs[p].overlap
    /\ procs[p].bookmark_id = procs[q].bookmark_id
    /\ procs[p].title.given
    /\ ~procs[p].description.given
    /\ ~procs[q].title.given
    /\ procs[q].description.given

\* C27: when update_bookmark(id, title=X) and update_bookmark(id,
\* description=Y) run at the same time, in any interleaving, the stored
\* bookmark has title X and description Y after both have returned.
C27_NoLostUpdate ==
    \A p, q \in Procs :
        UpdatedConcurrently(p, q) =>
            /\ Row(procs[p].bookmark_id).title = procs[p].title.val
            /\ Row(procs[p].bookmark_id).description = procs[q].description.val

\* what does hold: the update that wrote last is stored, and each field has
\* the value it had before or the value one of the calls was given
C27_OneUpdateStored ==
    \A p, q \in Procs :
        UpdatedConcurrently(p, q) =>
            /\ \/ Row(procs[p].bookmark_id).title = procs[p].title.val
               \/ Row(procs[p].bookmark_id).description = procs[q].description.val
            /\ Row(procs[p].bookmark_id).title \in {<<"t">>, procs[p].title.val}
            /\ Row(procs[p].bookmark_id).description \in {<<"e">>, procs[q].description.val}

\* the step is an add_bookmark with tags for a URL that was not stored
AddedTagged ==
    /\ Called("add_bookmark")
    /\ last'.tags.given
    /\ _normalize_tags(last'.tags.val) # <<>>
    /\ ~\E r \in bookmarks : r.url = _normalize_url(last'.url)

\* C28: add_bookmark with a non-empty tag list is all-or-nothing: when it
\* fails after the row was created, no bookmark with that URL remains (so
\* the same call made again does not raise DuplicateBookmarkError), and a
\* bookmark it stores carries all the tags asked for.
C28_AddWithTagsAllOrNothing ==
    [][AddedTagged =>
          /\ last'.result # "ok" =>
                 ~\E r \in bookmarks' : r.url = _normalize_url(last'.url)
          /\ \A r \in bookmarks' \ bookmarks :
                 TagNamesOf(tags', bookmark_tags', r.id)
                     = Names(_normalize_tags(last'.tags.val))]_vars

\* what does hold: a call that returns normally has stored the bookmark with
\* all the tags asked for, and a failed call stores none of the tags unless
\* it stored the bookmark
C28_AllTagsWhenOk ==
    [][AddedTagged =>
          /\ last'.result = "ok" =>
                 /\ RowAfter(last'.ret).url = _normalize_url(last'.url)
                 /\ TagNamesOf(tags', bookmark_tags', last'.ret)
                        = Names(_normalize_tags(last'.tags.val))
          /\ bookmarks' = bookmarks => UNCHANGED Tables]_vars

\* the entry of the step was counted: add_bookmark returned, or raised one
\* of the two exceptions import_bookmark catches
Counted == last'.result \in {"ok", "DuplicateBookmarkError", "InvalidURLError"}

\* C29: in every state of an import, total = imported + skipped + number of
\* error messages; each entry that is counted (add_success, add_skip or
\* add_error) raises total by exactly one; and when the import returns,
\* total is the number of entries parsed from the file.
C29_TotalCountsEveryEntry ==
    /\ [](imp.result.total
              = imp.result.imported + imp.result.skipped + Len(imp.result.errors))
    /\ [][(ImportStepping /\ Counted) => imp'.result.total = imp.result.total + 1]_vars
    /\ [](imp.status = "returned" => imp.result.total = Len(imp.entries))

C29_Witness ==
    /\ imp.status = "returned"
    /\ Len(imp.entries) = 2
    /\ imp.result.total = 2
    /\ imp.result.skipped = 1
    /\ Len(imp.result.errors) = 1

\* C30: an import entry that is skipped as a duplicate or rejected as
\* invalid changes nothing in the store: the bookmark stored with that URL
\* keeps id, title, description, timestamps and tags, and no tag row and no
\* association is created from the tags of the entry or the default tags.
C30_SkippedEntryChangesNothing ==
    [][(/\ ImportStepping
        /\ last'.result \in {"DuplicateBookmarkError", "InvalidURLError"})
       => UNCHANGED <<bookmarks, tags, bookmark_tags, seq>>]_vars

C30_Witness ==
    /\ last.op = "import_bookmark"
    /\ last.result = "DuplicateBookmarkError"
    /\ \E r \in bookmarks : r.url = _normalize_url(last.url) /\ TagsOf(r.id) = {}
    /\ <<"q">> \in Range(last.tags.val)
    /\ \A t \in tags : t.name # <<"q">>


====
